---- MODULE Spec2Model ----
(***************************************************************************)
(* A model of the ordb dictionary search engine: the query classifier,    *)
(* the variant expander, the per-mode matchers with their de-duplication   *)
(* and ranking, the whole-dictionary example finder and the command-line   *)
(* dispatch of src/src/ordb/cli.py.                                        *)
(*                                                                         *)
(* Text is a sequence of one-character strings.  A value that may be       *)
(* Python None / SQL NULL is an option: <<>> is None, <<v>> is the value.  *)
(* The letters a-ring, o-slash and ae are written "aring", "oslash" and    *)
(* "aelig" ("Aring", "Oslash", "AElig" in upper case): one character each. *)
(***************************************************************************)
EXTENDS Integers, Sequences, FiniteSets, TLC

VARIABLES
    character_replacement,  \* search_config.character_replacement
    conn,                   \* the database: articles, definitions, examples
    args,                   \* the parsed command line
    pc,                     \* the position of main()
    search_type,            \* main()'s search_type
    clean_query,            \* main()'s clean_query
    original_query,         \* main()'s original_query
    results,                \* main()'s results
    examples,               \* main()'s examples (--all-examples)
    query_variants,         \* query_variants of the search function called last
    calls,                  \* the search functions called so far, with what they returned
    search_config,          \* search_config: pagination, default_limit, limit_with_pagination, page_size
    db_file,                \* the database file at args.db
    error,                  \* the exception raised inside main()'s try block, if any
    exit_status,            \* the exit status of the process, None while main() runs
    displayed,              \* the entries and the examples formatted into full_output
    pager,                  \* the PageBuffer of paginate_output and what it has written
    stdin                   \* the lines of keyboard input not read yet

vars == <<character_replacement, conn, args, pc, search_type, clean_query, original_query,
          results, examples, query_variants, calls, search_config, db_file, error, exit_status,
          displayed, pager, stdin>>

\* what the search steps of main() leave alone
rest == <<search_config, db_file, error, exit_status, displayed, pager, stdin>>

None == <<>>
Some(x) == <<x>>
IsNone(o) == o = <<>>
Val(o) == o[1]

(***************************************************************************)
(* Characters and case folding.                                            *)
(***************************************************************************)
AsciiUpper ==
    ("A" :> "a") @@ ("B" :> "b") @@ ("C" :> "c") @@ ("D" :> "d") @@ ("E" :> "e") @@ ("F" :> "f") @@ ("G" :> "g") @@ ("H" :> "h") @@ ("I" :> "i") @@ ("J" :> "j") @@ ("K" :> "k") @@ ("L" :> "l") @@ ("M" :> "m") @@
    ("N" :> "n") @@ ("O" :> "o") @@ ("P" :> "p") @@ ("Q" :> "q") @@ ("R" :> "r") @@ ("S" :> "s") @@ ("T" :> "t") @@ ("U" :> "u") @@ ("V" :> "v") @@ ("W" :> "w") @@ ("X" :> "x") @@ ("Y" :> "y") @@ ("Z" :> "z")

NordicUpper == ("Aring" :> "aring") @@ ("Oslash" :> "oslash") @@ ("AElig" :> "aelig")

\* str.lower() on one character: Unicode-aware.
LowerChar(c) ==
    IF c \in DOMAIN AsciiUpper THEN AsciiUpper[c]
    ELSE IF c \in DOMAIN NordicUpper THEN NordicUpper[c]
    ELSE c

\* str.lower()
Lower(s) == [i \in 1..Len(s) |-> LowerChar(s[i])]

\* SQLite's built-in case folding (NOCASE, LIKE): the 26 ASCII letters only.
FoldAscii(c) == IF c \in DOMAIN AsciiUpper THEN AsciiUpper[c] ELSE c

Fold(s) == [i \in 1..Len(s) |-> FoldAscii(s[i])]

(***************************************************************************)
(* Python string primitives.                                               *)
(***************************************************************************)
\* str.startswith
StartsWith(s, p) == Len(p) <= Len(s) /\ SubSeq(s, 1, Len(p)) = p

\* str.endswith
EndsWith(s, p) == Len(p) <= Len(s) /\ SubSeq(s, Len(s) - Len(p) + 1, Len(s)) = p

\* the positions (0-based offsets) at which p occurs in s
Occurrences(s, p) == {i \in 0..(Len(s) - Len(p)) : SubSeq(s, i + 1, i + Len(p)) = p}

\* p in s
Contains(s, p) == Occurrences(s, p) # {}

Min(S) == CHOOSE m \in S : \A n \in S : m <= n

\* x in list
InList(x, l) == \E i \in 1..Len(l) : l[i] = x

\* str.replace(old, new): non-overlapping occurrences, left to right (old is non-empty)
RECURSIVE Replace(_, _, _)
Replace(s, old, new) ==
    IF ~Contains(s, old) THEN s
    ELSE LET i == Min(Occurrences(s, old))
         IN  SubSeq(s, 1, i) \o new \o Replace(SubSeq(s, i + Len(old) + 1, Len(s)), old, new)

\* str.split(sep) for a non-empty separator
RECURSIVE Split(_, _)
Split(s, sep) ==
    IF ~Contains(s, sep) THEN <<s>>
    ELSE LET i == Min(Occurrences(s, sep))
         IN  <<SubSeq(s, 1, i)>> \o Split(SubSeq(s, i + Len(sep) + 1, Len(s)), sep)

WhiteSpace == {" ", "\t", "\n"}

\* str.split() without a separator: runs of whitespace separate, no empty words
RECURSIVE SplitWords(_)
SplitWords(s) ==
    IF s = <<>> THEN <<>>
    ELSE IF s[1] \in WhiteSpace THEN SplitWords(Tail(s))
    ELSE LET stops == {i \in 1..Len(s) : s[i] \in WhiteSpace}
             n == IF stops = {} THEN Len(s) ELSE Min(stops) - 1
         IN  <<SubSeq(s, 1, n)>> \o SplitWords(SubSeq(s, n + 1, Len(s)))

(***************************************************************************)
(* SQLite primitives.                                                      *)
(***************************************************************************)
\* text LIKE pattern: '%' matches any run, '_' matches one character, every other
\* character matches itself up to ASCII case
RECURSIVE LikeFrom(_, _, _, _)
LikeFrom(p, i, t, j) ==
    IF i > Len(p) THEN j > Len(t)
    ELSE IF p[i] = "%" THEN \E k \in j..(Len(t) + 1) : LikeFrom(p, i + 1, t, k)
    ELSE IF j > Len(t) THEN FALSE
    ELSE IF p[i] = "_" \/ FoldAscii(p[i]) = FoldAscii(t[j]) THEN LikeFrom(p, i + 1, t, j + 1)
    ELSE FALSE

\* field LIKE pattern COLLATE NOCASE, with a NULL field giving NULL (not true)
SqlLike(field, pattern) == ~IsNone(field) /\ LikeFrom(pattern, 1, Val(field), 1)

\* field = value COLLATE NOCASE
SqlEqNoCase(field, value) == ~IsNone(field) /\ Fold(Val(field)) = Fold(value)

\* a filter that never excludes expressions
ExprFilter_Off(row, include_expr) == TRUE

\* "AND word_class != 'EXPR'": NULL != 'EXPR' is NULL, and the row is not selected
ExprFilter(row, include_expr) ==
    include_expr \/ (~IsNone(row.word_class) /\ Val(row.word_class) # "EXPR")

(***************************************************************************)
(* difflib.SequenceMatcher(None, a, b).ratio(), as a fraction <<num, den>>. *)
(***************************************************************************)
\* length of the common run of a from i and b from j inside a[..ahi], b[..bhi]
RECURSIVE RunLen(_, _, _, _, _, _)
RunLen(a, b, i, j, ahi, bhi) ==
    IF i > ahi \/ j > bhi \/ a[i] # b[j] THEN 0
    ELSE 1 + RunLen(a, b, i + 1, j + 1, ahi, bhi)

\* find_longest_match: the longest block, the earliest in a, then the earliest in b
LongestMatch(a, b, alo, ahi, blo, bhi) ==
    LET blocks == {<<i, j>> : i \in alo..ahi, j \in blo..bhi}
        size(m) == RunLen(a, b, m[1], m[2], ahi, bhi)
        Better(m, n) ==
            \/ size(m) > size(n)
            \/ size(m) = size(n) /\ m[1] < n[1]
            \/ size(m) = size(n) /\ m[1] = n[1] /\ m[2] <= n[2]
        best == CHOOSE m \in blocks : \A n \in blocks : Better(m, n)
    IN  [i |-> best[1], j |-> best[2], k |-> size(best)]

\* get_matching_blocks: the sum of the sizes of the blocks found recursively to the
\* left and to the right of the longest one
RECURSIVE MatchCount(_, _, _, _, _, _)
MatchCount(a, b, alo, ahi, blo, bhi) ==
    IF alo > ahi \/ blo > bhi THEN 0
    ELSE LET m == LongestMatch(a, b, alo, ahi, blo, bhi)
         IN  IF m.k = 0 THEN 0
             ELSE m.k + MatchCount(a, b, alo, m.i - 1, blo, m.j - 1)
                      + MatchCount(a, b, m.i + m.k, ahi, m.j + m.k, bhi)

\* ratio(): 2.0 * matches / (len(a) + len(b)), and 1.0 for two empty strings
Ratio(a, b) ==
    IF Len(a) + Len(b) = 0 THEN <<1, 1>>
    ELSE <<2 * MatchCount(a, b, 1, Len(a), 1, Len(b)), Len(a) + Len(b)>>

similarity(a, b) == Ratio(Lower(a), Lower(b))

\* comparison of two fractions with positive denominators
FracLess(x, y) == x[1] * y[2] < y[1] * x[2]
FracLeq(x, y) == x[1] * y[2] <= y[1] * x[2]
FracEq(x, y) == x[1] * y[2] = y[1] * x[2]

(***************************************************************************)
(* list.sort(key=...): a stable sort on tuple keys whose components are     *)
(* fractions, compared lexicographically as Python compares tuples.        *)
(***************************************************************************)
RECURSIVE KeyLess(_, _)
KeyLess(k1, k2) ==
    IF k1 = <<>> \/ k2 = <<>> THEN k1 = <<>> /\ k2 # <<>>
    ELSE IF FracLess(k1[1], k2[1]) THEN TRUE
    ELSE IF FracLess(k2[1], k1[1]) THEN FALSE
    ELSE KeyLess(Tail(k1), Tail(k2))

\* the pair x = <<key, item>> inserted into the sorted list s behind every pair
\* whose key is not greater
RECURSIVE InsertSorted(_, _)
InsertSorted(s, x) ==
    IF s = <<>> THEN <<x>>
    ELSE IF KeyLess(x[1], s[1][1]) THEN <<x>> \o s
    ELSE <<s[1]>> \o InsertSorted(Tail(s), x)

RECURSIVE SortFrom(_, _, _)
SortFrom(s, i, acc) ==
    IF i > Len(s) THEN acc
    ELSE SortFrom(s, i + 1, InsertSorted(acc, s[i]))

\* s.sort(key=...), given the list of the keys of the elements of s
StableSort(s, keys) ==
    LET pairs == [i \in 1..Len(s) |-> <<keys[i], s[i]>>]
        sorted == SortFrom(pairs, 1, <<>>)
    IN  [i \in 1..Len(s) |-> sorted[i][2]]

Int2Frac(n) == <<n, 1>>

(***************************************************************************)
(* core.parse_search_query                                                 *)
(***************************************************************************)
\* a classifier whose prefix rule forgets "and not query.startswith('@')"
parse_search_query_PrefixUnguarded(query) ==
    IF StartsWith(query, <<"%">>)
    THEN [search_type |-> "fulltext", query |-> SubSeq(query, 2, Len(query)),
          original_query |-> query]
    ELSE IF EndsWith(query, <<"@">>)
    THEN [search_type |-> "prefix", query |-> SubSeq(query, 1, Len(query) - 1),
          original_query |-> query]
    ELSE IF StartsWith(query, <<"@">>)
    THEN [search_type |-> "anywhere_term", query |-> SubSeq(query, 2, Len(query)),
          original_query |-> query]
    ELSE [search_type |-> "exact", query |-> query, original_query |-> query]

parse_search_query(query) ==
    IF StartsWith(query, <<"%">>)
    THEN [search_type |-> "fulltext", query |-> SubSeq(query, 2, Len(query)),
          original_query |-> query]
    ELSE IF EndsWith(query, <<"@">>) /\ ~StartsWith(query, <<"@">>)
    THEN [search_type |-> "prefix", query |-> SubSeq(query, 1, Len(query) - 1),
          original_query |-> query]
    ELSE IF StartsWith(query, <<"@">>)
    THEN LET q1 == SubSeq(query, 2, Len(query))
         IN  [search_type |-> "anywhere_term",
              query |-> IF EndsWith(q1, <<"@">>) THEN SubSeq(q1, 1, Len(q1) - 1) ELSE q1,
              original_query |-> query]
    ELSE [search_type |-> "exact", query |-> query, original_query |-> query]

(***************************************************************************)
(* config.apply_character_replacement (the variant expander).              *)
(***************************************************************************)
Digraphs == << <<<<"a", "a">>, <<"aring">>>>, <<<<"o", "e">>, <<"oslash">>>>, <<<<"a", "e">>, <<"aelig">>>> >>

RECURSIVE ExpandFrom(_, _, _)
ExpandFrom(term, i, variants) ==
    IF i > Len(Digraphs) THEN variants
    ELSE LET v == Replace(term, Digraphs[i][1], Digraphs[i][2])
         IN  ExpandFrom(term, i + 1, IF InList(v, variants) THEN variants ELSE Append(variants, v))

\* an expander that applies each substitution to the result of the one before
RECURSIVE ExpandChained(_, _, _)
ExpandChained(cur, i, variants) ==
    IF i > Len(Digraphs) THEN variants
    ELSE LET v == Replace(cur, Digraphs[i][1], Digraphs[i][2])
         IN  ExpandChained(v, i + 1, IF InList(v, variants) THEN variants ELSE Append(variants, v))

apply_character_replacement_Chained(term) ==
    IF character_replacement THEN ExpandChained(term, 1, <<term>>) ELSE <<term>>

apply_character_replacement(term) ==
    IF character_replacement THEN ExpandFrom(term, 1, <<term>>) ELSE <<term>>

(***************************************************************************)
(* The search functions of core.py.  An article row is a record            *)
(* [article_id, lemma, all_lemmas, word_class, inflections, etymology,     *)
(* homonym_number]; all_lemmas and inflections are stored joined by " | ". *)
(***************************************************************************)
Sep == <<" ", "|", " ">>

\* '%' + variant + '%' and variant + '%'
Anywhere(variant) == <<"%">> \o variant \o <<"%">>
Leading(variant) == variant \o <<"%">>

\* x.split(' | ') if x else []
SplitField(field) ==
    IF IsNone(field) \/ Val(field) = <<>> THEN <<>> ELSE Split(Val(field), Sep)

LowerAll(l) == [i \in 1..Len(l) |-> Lower(l[i])]

\* a loop that appends every fetched row without looking at seen_ids
RECURSIVE AddUnseen_NoCheck(_, _, _)
AddUnseen_NoCheck(st, rows, i) ==
    IF i > Len(rows) THEN st
    ELSE AddUnseen_NoCheck([results |-> Append(st.results, rows[i]),
                            seen_ids |-> st.seen_ids \cup {rows[i].article_id}], rows, i + 1)

\* for result in cursor.fetchall(): if result[0] not in seen_ids: append, add
RECURSIVE AddUnseen(_, _, _)
AddUnseen(st, rows, i) ==
    IF i > Len(rows) THEN st
    ELSE IF rows[i].article_id \in st.seen_ids THEN AddUnseen(st, rows, i + 1)
    ELSE AddUnseen([results |-> Append(st.results, rows[i]),
                    seen_ids |-> st.seen_ids \cup {rows[i].article_id}], rows, i + 1)

Empty == [results |-> <<>>, seen_ids |-> {}]

\* LEFT JOIN definitions d ... d.content LIKE pattern
DefinitionLike(db, a, pattern) ==
    \E k \in 1..Len(db.definitions) :
        /\ db.definitions[k].article_id = a.article_id
        /\ SqlLike(db.definitions[k].content, pattern)

\* LEFT JOIN examples e ... e.quote LIKE pattern
ExampleLike(db, a, pattern) ==
    \E k \in 1..Len(db.examples) :
        /\ db.examples[k].article_id = a.article_id
        /\ SqlLike(db.examples[k].quote, pattern)

\* a key that ranks by homonym number before the lemma length
LenKey_ByHomonym(x) ==
    <<Int2Frac(IF IsNone(x.homonym_number) THEN 1 ELSE Val(x.homonym_number)),
      Int2Frac(Len(x.lemma))>>

\* key=lambda x: len(x[1])
LenKey(x) == <<Int2Frac(Len(x.lemma))>>

---------------------------------------------------------------------------
\* search_exact: one variant of the loop
ExactVariant(db, st, variant, include_expr) ==
    LET ByLemma(a) == SqlEqNoCase(Some(a.lemma), variant) /\ ExprFilter(a, include_expr)
        ByForms(a) ==
            /\ SqlLike(a.all_lemmas, Anywhere(variant)) \/ SqlLike(a.inflections, Anywhere(variant))
            /\ ExprFilter(a, include_expr)
        WholeElement(a) ==
            \/ InList(Lower(variant), LowerAll(SplitField(a.all_lemmas)))
            \/ InList(Lower(variant), LowerAll(SplitField(a.inflections)))
        st1 == AddUnseen(st, SelectSeq(db.articles, ByLemma), 1)
    IN  AddUnseen(st1, SelectSeq(SelectSeq(db.articles, ByForms), WholeElement), 1)

RECURSIVE ExactLoop(_, _, _, _, _)
ExactLoop(db, variants, i, st, include_expr) ==
    IF i > Len(variants) THEN st
    ELSE ExactLoop(db, variants, i + 1, ExactVariant(db, st, variants[i], include_expr),
                   include_expr)

\* the results of search_exact before the sort
exact_hits(db, query, include_expr) ==
    ExactLoop(db, apply_character_replacement(query), 1, Empty, include_expr).results

word_class_priority(x) ==
    IF x.word_class = Some("NOUN") THEN 0
    ELSE IF x.word_class = Some("VERB") THEN 1
    ELSE IF x.word_class = Some("ADJ") THEN 2
    ELSE IF x.word_class = Some("ADV") THEN 3
    ELSE 4

\* a key that ranks an absent homonym number before every number
sort_key_NullFirst(x) ==
    LET homonym == IF ~IsNone(x.homonym_number) THEN Val(x.homonym_number) ELSE 0
    IN  <<Int2Frac(homonym), Int2Frac(word_class_priority(x)), Int2Frac(Len(x.lemma))>>

sort_key(x) ==
    LET homonym == IF ~IsNone(x.homonym_number) THEN Val(x.homonym_number) ELSE 1
    IN  <<Int2Frac(homonym), Int2Frac(word_class_priority(x)), Int2Frac(Len(x.lemma))>>

search_exact(db, query, include_expr) ==
    LET hits == exact_hits(db, query, include_expr)
    IN  StableSort(hits, [i \in 1..Len(hits) |-> sort_key(hits[i])])

---------------------------------------------------------------------------
PrefixVariant(db, st, variant, include_expr) ==
    LET Where(a) ==
            /\ \/ SqlLike(Some(a.lemma), Leading(variant))
               \/ SqlLike(a.all_lemmas, Anywhere(variant))
               \/ SqlLike(a.inflections, Anywhere(variant))
            /\ ExprFilter(a, include_expr)
        Starts(a) ==
            LET all_terms == <<a.lemma>> \o SplitField(a.all_lemmas) \o SplitField(a.inflections)
            IN  \E k \in 1..Len(all_terms) :
                    all_terms[k] # <<>> /\ StartsWith(Lower(all_terms[k]), Lower(variant))
    IN  AddUnseen(st, SelectSeq(SelectSeq(db.articles, Where), Starts), 1)

RECURSIVE PrefixLoop(_, _, _, _, _)
PrefixLoop(db, variants, i, st, include_expr) ==
    IF i > Len(variants) THEN st
    ELSE PrefixLoop(db, variants, i + 1, PrefixVariant(db, st, variants[i], include_expr),
                    include_expr)

prefix_hits(db, query, include_expr) ==
    PrefixLoop(db, apply_character_replacement(query), 1, Empty, include_expr).results

search_prefix(db, query, include_expr) ==
    LET hits == prefix_hits(db, query, include_expr)
    IN  StableSort(hits, [i \in 1..Len(hits) |-> LenKey(hits[i])])

---------------------------------------------------------------------------
\* a body that looks for the variant in the lemma alone
AnywhereTermVariant_LemmaOnly(db, st, variant, include_expr) ==
    LET Where(a) ==
            /\ SqlLike(Some(a.lemma), Anywhere(variant))
            /\ ExprFilter(a, include_expr)
    IN  AddUnseen(st, SelectSeq(db.articles, Where), 1)

\* the body of "for variant in query_variants" in search_anywhere_term
AnywhereTermVariant(db, st, variant, include_expr) ==
    LET Where(a) ==
            /\ \/ SqlLike(Some(a.lemma), Anywhere(variant))
               \/ SqlLike(a.all_lemmas, Anywhere(variant))
               \/ SqlLike(a.inflections, Anywhere(variant))
            /\ ExprFilter(a, include_expr)
    IN  AddUnseen(st, SelectSeq(db.articles, Where), 1)

RECURSIVE AnywhereTermLoop(_, _, _, _, _)
AnywhereTermLoop(db, variants, i, st, include_expr) ==
    IF i > Len(variants) THEN st
    ELSE AnywhereTermLoop(db, variants, i + 1,
                          AnywhereTermVariant(db, st, variants[i], include_expr), include_expr)

anywhere_term_hits(db, query, include_expr) ==
    AnywhereTermLoop(db, apply_character_replacement(query), 1, Empty, include_expr).results

search_anywhere_term(db, query, include_expr) ==
    LET hits == anywhere_term_hits(db, query, include_expr)
    IN  StableSort(hits, [i \in 1..Len(hits) |-> LenKey(hits[i])])

---------------------------------------------------------------------------
FulltextVariant(db, st, variant, include_expr) ==
    LET Where(a) ==
            /\ \/ SqlLike(Some(a.lemma), Anywhere(variant))
               \/ SqlLike(a.all_lemmas, Anywhere(variant))
               \/ SqlLike(a.inflections, Anywhere(variant))
               \/ DefinitionLike(db, a, Anywhere(variant))
               \/ ExampleLike(db, a, Anywhere(variant))
               \/ SqlLike(a.etymology, Anywhere(variant))
            /\ ExprFilter(a, include_expr)
    IN  AddUnseen(st, SelectSeq(db.articles, Where), 1)

RECURSIVE FulltextLoop(_, _, _, _, _)
FulltextLoop(db, variants, i, st, include_expr) ==
    IF i > Len(variants) THEN st
    ELSE FulltextLoop(db, variants, i + 1, FulltextVariant(db, st, variants[i], include_expr),
                      include_expr)

fulltext_hits(db, query, include_expr) ==
    FulltextLoop(db, apply_character_replacement(query), 1, Empty, include_expr).results

search_fulltext(db, query, include_expr) ==
    LET hits == fulltext_hits(db, query, include_expr)
    IN  StableSort(hits, [i \in 1..Len(hits) |-> LenKey(hits[i])])

---------------------------------------------------------------------------
AnywhereVariant(db, st, variant, include_expr) ==
    LET Where(a) ==
            /\ \/ DefinitionLike(db, a, Anywhere(variant))
               \/ ExampleLike(db, a, Anywhere(variant))
               \/ SqlLike(a.all_lemmas, Anywhere(variant))
            /\ ExprFilter(a, include_expr)
    IN  AddUnseen(st, SelectSeq(db.articles, Where), 1)

RECURSIVE AnywhereLoop(_, _, _, _, _)
AnywhereLoop(db, variants, i, st, include_expr) ==
    IF i > Len(variants) THEN st
    ELSE AnywhereLoop(db, variants, i + 1, AnywhereVariant(db, st, variants[i], include_expr),
                      include_expr)

anywhere_hits(db, query, include_expr) ==
    AnywhereLoop(db, apply_character_replacement(query), 1, Empty, include_expr).results

search_anywhere(db, query, include_expr) ==
    LET hits == anywhere_hits(db, query, include_expr)
    IN  StableSort(hits, [i \in 1..Len(hits) |-> LenKey(hits[i])])

---------------------------------------------------------------------------
ExpressionsVariant(db, st, variant) ==
    LET Where(a) ==
            /\ ~IsNone(a.word_class) /\ Val(a.word_class) = "EXPR"
            /\ \/ SqlLike(Some(a.lemma), Anywhere(variant))
               \/ SqlLike(a.all_lemmas, Anywhere(variant))
    IN  AddUnseen(st, SelectSeq(db.articles, Where), 1)

RECURSIVE ExpressionsLoop(_, _, _, _)
ExpressionsLoop(db, variants, i, st) ==
    IF i > Len(variants) THEN st
    ELSE ExpressionsLoop(db, variants, i + 1, ExpressionsVariant(db, st, variants[i]))

expressions_hits(db, query) ==
    ExpressionsLoop(db, apply_character_replacement(query), 1, Empty).results

search_expressions_only(db, query) ==
    LET hits == expressions_hits(db, query)
    IN  StableSort(hits, [i \in 1..Len(hits) |-> LenKey(hits[i])])

---------------------------------------------------------------------------
\* max_similarity over the elements of all_lemmas: "if sim > max_similarity"
RECURSIVE MaxSimilarity(_, _, _, _)
MaxSimilarity(variant, lemmas, i, max_similarity) ==
    IF i > Len(lemmas) THEN max_similarity
    ELSE LET sim == similarity(variant, lemmas[i])
         IN  MaxSimilarity(variant, lemmas, i + 1,
                           IF FracLess(max_similarity, sim) THEN sim ELSE max_similarity)

\* a body that takes an article only above the threshold
FuzzyArticle_Strict(st, variant, article, threshold) ==
    IF article.article_id \in st.seen_ids THEN st
    ELSE IF FracLess(threshold, similarity(variant, article.lemma))
            \/ FracLess(threshold, MaxSimilarity(variant, SplitField(article.all_lemmas), 1,
                                                 Int2Frac(0)))
    THEN [fuzzy_matches |-> Append(st.fuzzy_matches,
                                   <<article, similarity(variant, article.lemma)>>),
          seen_ids |-> st.seen_ids \cup {article.article_id}]
    ELSE st

\* the body of "for article in all_articles" in search_fuzzy
FuzzyArticle(st, variant, article, threshold) ==
    IF article.article_id \in st.seen_ids THEN st
    ELSE IF FracLeq(threshold, similarity(variant, article.lemma))
    THEN [fuzzy_matches |-> Append(st.fuzzy_matches,
                                   <<article, similarity(variant, article.lemma)>>),
          seen_ids |-> st.seen_ids \cup {article.article_id}]
    ELSE LET lemmas == SplitField(article.all_lemmas)
             max_similarity == MaxSimilarity(variant, lemmas, 1, Int2Frac(0))
         IN  IF FracLeq(threshold, max_similarity)
             THEN [fuzzy_matches |-> Append(st.fuzzy_matches, <<article, max_similarity>>),
                   seen_ids |-> st.seen_ids \cup {article.article_id}]
             ELSE st

RECURSIVE FuzzyArticles(_, _, _, _, _)
FuzzyArticles(st, variant, all_articles, k, threshold) ==
    IF k > Len(all_articles) THEN st
    ELSE FuzzyArticles(FuzzyArticle(st, variant, all_articles[k], threshold), variant,
                       all_articles, k + 1, threshold)

RECURSIVE FuzzyLoop(_, _, _, _, _)
FuzzyLoop(all_articles, variants, i, st, threshold) ==
    IF i > Len(variants) THEN st
    ELSE FuzzyLoop(all_articles, variants, i + 1,
                   FuzzyArticles(st, variants[i], all_articles, 1, threshold), threshold)

\* fuzzy_matches of search_fuzzy before the sort: pairs <<article, score>>
fuzzy_hits(db, query, threshold, include_expr) ==
    LET Where(a) == ExprFilter(a, include_expr)
        all_articles == SelectSeq(db.articles, Where)
    IN  FuzzyLoop(all_articles, apply_character_replacement(query), 1,
                  [fuzzy_matches |-> <<>>, seen_ids |-> {}], threshold).fuzzy_matches

\* a key that ranks the lowest score first
FuzzyKey_Ascending(m) == <<m[2], Int2Frac(Len(m[1].lemma))>>

\* key=lambda x: (-x[1], len(x[0][1]))
FuzzyKey(m) == <<<<0 - m[2][1], m[2][2]>>, Int2Frac(Len(m[1].lemma))>>

\* fuzzy_matches after the sort
fuzzy_ranked(db, query, threshold, include_expr) ==
    LET hits == fuzzy_hits(db, query, threshold, include_expr)
    IN  StableSort(hits, [i \in 1..Len(hits) |-> FuzzyKey(hits[i])])

search_fuzzy(db, query, threshold, include_expr) ==
    LET ranked == fuzzy_ranked(db, query, threshold, include_expr)
    IN  [i \in 1..Len(ranked) |-> ranked[i][1]]

---------------------------------------------------------------------------
\* the code point of a character: the order of Python's string comparison and of
\* SQLite's BINARY collation
CodePoint ==
    (" " :> 32) @@ ("%" :> 37) @@ ("." :> 46) @@ ("@" :> 64) @@ ("_" :> 95) @@ ("|" :> 124) @@
    ("\\" :> 92) @@ ("A" :> 65) @@ ("B" :> 66) @@ ("C" :> 67) @@ ("D" :> 68) @@ ("E" :> 69) @@
    ("F" :> 70) @@ ("G" :> 71) @@ ("H" :> 72) @@ ("I" :> 73) @@ ("J" :> 74) @@ ("K" :> 75) @@
    ("L" :> 76) @@ ("M" :> 77) @@ ("N" :> 78) @@ ("O" :> 79) @@ ("P" :> 80) @@ ("Q" :> 81) @@
    ("R" :> 82) @@ ("S" :> 83) @@ ("T" :> 84) @@ ("U" :> 85) @@ ("V" :> 86) @@ ("W" :> 87) @@
    ("X" :> 88) @@ ("Y" :> 89) @@ ("Z" :> 90) @@ ("a" :> 97) @@ ("b" :> 98) @@ ("c" :> 99) @@
    ("d" :> 100) @@ ("e" :> 101) @@ ("f" :> 102) @@ ("g" :> 103) @@ ("h" :> 104) @@ ("i" :> 105) @@
    ("j" :> 106) @@ ("k" :> 107) @@ ("l" :> 108) @@ ("m" :> 109) @@ ("n" :> 110) @@ ("o" :> 111) @@
    ("p" :> 112) @@ ("q" :> 113) @@ ("r" :> 114) @@ ("s" :> 115) @@ ("t" :> 116) @@ ("u" :> 117) @@
    ("v" :> 118) @@ ("w" :> 119) @@ ("x" :> 120) @@ ("y" :> 121) @@ ("z" :> 122) @@ ("Aring" :> 197) @@
    ("AElig" :> 198) @@ ("Oslash" :> 216) @@ ("aring" :> 229) @@ ("aelig" :> 230) @@ ("oslash" :> 248)

StringKey(str) == [i \in 1..Len(str) |-> Int2Frac(CodePoint[str[i]])]

\* the article an example row joins: JOIN articles a ON e.article_id = a.article_id
JoinRows(db) ==
    LET pairs == {<<k, n>> \in (1..Len(db.examples)) \X (1..Len(db.articles)) :
                    db.examples[k].article_id = db.articles[n].article_id}
        Row(pr) == [quote |-> db.examples[pr[1]].quote,
                    explanation |-> db.examples[pr[1]].explanation,
                    lemma |-> db.articles[pr[2]].lemma,
                    word_class |-> db.articles[pr[2]].word_class,
                    id |-> db.examples[pr[1]].id]
    IN  {Row(pr) : pr \in pairs}

\* a set of rows as a list ordered by e.id
RECURSIVE ById(_)
ById(rows) ==
    IF rows = {} THEN <<>>
    ELSE LET r == CHOOSE x \in rows : \A y \in rows : x.id <= y.id
         IN  <<r>> \o ById(rows \ {r})

\* SELECT DISTINCT e.quote, e.explanation, a.lemma, a.word_class ... ORDER BY a.lemma, e.id
RECURSIVE Distinct(_, _, _)
Distinct(rows, i, acc) ==
    IF i > Len(rows) THEN acc
    ELSE LET row == [quote |-> Val(rows[i].quote), explanation |-> rows[i].explanation,
                     lemma |-> rows[i].lemma, word_class |-> rows[i].word_class]
         IN  Distinct(rows, i + 1, IF InList(row, acc) THEN acc ELSE Append(acc, row))

ExampleRows(db, variant) ==
    LET Where(r) == ~IsNone(r.quote) /\ Val(r.quote) # <<>> /\ SqlLike(r.quote, Anywhere(variant))
        selected == ById({r \in JoinRows(db) : Where(r)})
    IN  Distinct(StableSort(selected, [i \in 1..Len(selected) |-> StringKey(selected[i].lemma)]),
                 1, <<>>)

WordBoundary == <<"\\", "b">>

\* re.search(r'\\b' + re.escape(variant.lower()) + r'\\b', quote.lower()): the raw
\* string r'\\b' is the pattern of a backslash followed by the letter b
RegexSearch(variant, quote) ==
    Contains(Lower(quote), WordBoundary \o Lower(variant) \o WordBoundary)

\* variant.lower() in quote.lower().split()
SplitMatch(variant, quote) == InList(Lower(variant), SplitWords(Lower(quote)))

\* a check that takes every quote for new
Unseen_Always(quote, seen_examples) == TRUE

\* quote not in seen_examples
Unseen(quote, seen_examples) == quote \notin seen_examples

RECURSIVE ExampleRowsLoop(_, _, _, _)
ExampleRowsLoop(st, variant, rows, k) ==
    IF k > Len(rows) THEN st
    ELSE LET row == rows[k]
             accept == /\ row.quote # <<>>
                       /\ Unseen(row.quote, st.seen_examples)
                       /\ RegexSearch(variant, row.quote) \/ SplitMatch(variant, row.quote)
         IN  ExampleRowsLoop(IF accept
                             THEN [all_examples |-> Append(st.all_examples, row),
                                   seen_examples |-> st.seen_examples \cup {row.quote}]
                             ELSE st, variant, rows, k + 1)

RECURSIVE ExamplesLoop(_, _, _, _)
ExamplesLoop(db, variants, i, st) ==
    IF i > Len(variants) THEN st
    ELSE ExamplesLoop(db, variants, i + 1,
                      ExampleRowsLoop(st, variants[i], ExampleRows(db, variants[i]), 1))

\* all_examples of search_all_examples before the sort
example_hits(db, query) ==
    ExamplesLoop(db, apply_character_replacement(query), 1,
                 [all_examples |-> <<>>, seen_examples |-> {}]).all_examples

\* a finder that returns the examples as they were retrieved
search_all_examples_Unsorted(db, query) == example_hits(db, query)

search_all_examples(db, query) ==
    LET hits == example_hits(db, query)
    IN  StableSort(hits, [i \in 1..Len(hits) |-> StringKey(hits[i].lemma)])

(***************************************************************************)
(* The dictionaries and command lines the model is run on.                 *)
(***************************************************************************)
MaxEntries == 3

HusEntries == <<
    [lemma |-> <<"h", "u", "s">>,
     all_lemmas |-> Some(<<"h", "u", "s">>),
     word_class |-> Some("NOUN"),
     inflections |-> Some(<<"h", "u", "s", " ", "|", " ", "h", "u", "s", "e", "t">>),
     etymology |-> None,
     homonym_number |-> None,
     defs |-> <<<<"b", "y", "g", "n", "i", "n", "g">>>>,
     quotes |-> <<<<"H", "a", "n", " ", "g", "i", "k", "k", " ", "t", "i", "l", " ", "h", "u", "s", "e", "t", ".">>>>],
    [lemma |-> <<"h", "u", "s">>,
     all_lemmas |-> Some(<<"h", "u", "s">>),
     word_class |-> Some("NOUN"),
     inflections |-> None,
     etymology |-> None,
     homonym_number |-> Some(2),
     defs |-> <<>>,
     quotes |-> <<>>],
    [lemma |-> <<"h", "u", "s">>,
     all_lemmas |-> Some(<<"h", "u", "s">>),
     word_class |-> Some("NOUN"),
     inflections |-> None,
     etymology |-> Some(<<"n", "o", "r", "r", ".", " ", "h", "u", "s">>),
     homonym_number |-> Some(1),
     defs |-> <<>>,
     quotes |-> <<>>],
    [lemma |-> <<"h", "u", "s", "e">>,
     all_lemmas |-> Some(<<"h", "u", "s", "e">>),
     word_class |-> Some("VERB"),
     inflections |-> Some(<<"h", "u", "s", "e", "r", " ", "|", " ", "h", "u", "s">>),
     etymology |-> None,
     homonym_number |-> None,
     defs |-> <<<<"g", "i", " ", "h", "u", "s">>>>,
     quotes |-> <<>>],
    [lemma |-> <<"f", "u", "l", "l", "t", " ", "h", "u", "s">>,
     all_lemmas |-> Some(<<"f", "u", "l", "l", "t", " ", "h", "u", "s">>),
     word_class |-> Some("EXPR"),
     inflections |-> None,
     etymology |-> None,
     homonym_number |-> None,
     defs |-> <<<<"a", "l", "l", "e", " ", "p", "l", "a", "s", "s", "e", "r", " ", "o", "p", "p", "t", "a", "t", "t">>>>,
     quotes |-> <<<<"h", "a", " ", "f", "u", "l", "l", "t", " ", "h", "u", "s">>>>]
>>

GaaEntries == <<
    [lemma |-> <<"g", "aring">>,
     all_lemmas |-> Some(<<"g", "aring", " ", "|", " ", "g", "a", "a">>),
     word_class |-> Some("VERB"),
     inflections |-> Some(<<"g", "aring", "r", " ", "|", " ", "g", "i", "k", "k">>),
     etymology |-> None,
     homonym_number |-> None,
     defs |-> <<<<"f", "l", "y", "t", "t", "e", " ", "s", "e", "g">>>>,
     quotes |-> <<<<"g", "aring", " ", "n", "aring">>, <<"g", "a", "a", " ", "b", "o", "r", "t">>>>],
    [lemma |-> <<"g", "aring", "r", "d">>,
     all_lemmas |-> Some(<<"g", "aring", "r", "d", " ", "|", " ", "g", "a", "a", "r", "d">>),
     word_class |-> Some("NOUN"),
     inflections |-> None,
     etymology |-> None,
     homonym_number |-> None,
     defs |-> <<>>,
     quotes |-> <<<<"g", "a", "a", " ", "h", "j", "e", "m">>>>],
    [lemma |-> <<"g", "aring", "s">>,
     all_lemmas |-> Some(<<"g", "aring", "s">>),
     word_class |-> Some("NOUN"),
     inflections |-> None,
     etymology |-> None,
     homonym_number |-> None,
     defs |-> <<<<"e", "l", "d", "r", "e", ":", " ", "g", "a", "a", "s">>>>,
     quotes |-> <<<<"g", "aring", " ", "n", "aring">>>>],
    [lemma |-> <<"g", "aring", " ", "a", "n">>,
     all_lemmas |-> Some(<<"g", "aring", " ", "a", "n">>),
     word_class |-> Some("EXPR"),
     inflections |-> None,
     etymology |-> None,
     homonym_number |-> None,
     defs |-> <<<<"v", "aelig", "r", "e", " ", "m", "u", "l", "i", "g">>>>,
     quotes |-> <<>>]
>>

HusQueries == {
    <<"h", "u", "s">>,
    <<"H", "u", "s">>,
    <<"h", "u", "s", "@">>,
    <<"@", "h", "u", "s">>,
    <<"%", "h", "u", "s">>,
    <<"%", "h", "u", "s", "@">>,
    <<"h", "u", "s", "e">>,
    <<"h", "u", "s", "e", "t">>,
    <<"h", "_", "s">>,
    <<"@", "h", "_", "s">>,
    <<"f", "u", "l", "l", "t", " ", "h", "u", "s">>
}

GaaQueries == {
    <<"g", "a", "a">>,
    <<"g", "a", "a", "@">>,
    <<"@", "g", "a", "a", "@">>,
    <<"%", "g", "a", "a">>,
    <<"g", "aring">>
}

\* the lists of at most MaxEntries different entries of a pool, in any order
Tables(pool) ==
    {t \in UNION {[1..n -> 1..Len(pool)] : n \in 0..MaxEntries} :
        \A i, j \in 1..Len(t) : i # j => t[i] # t[j]}

RECURSIVE DefinitionRows(_, _, _)
DefinitionRows(pool, t, i) ==
    IF i > Len(t) THEN <<>>
    ELSE [k \in 1..Len(pool[t[i]].defs) |->
             [article_id |-> i, content |-> Some(pool[t[i]].defs[k])]]
         \o DefinitionRows(pool, t, i + 1)

RECURSIVE ExampleRowsOf(_, _, _)
ExampleRowsOf(pool, t, i) ==
    IF i > Len(t) THEN <<>>
    ELSE [k \in 1..Len(pool[t[i]].quotes) |->
             [article_id |-> i, quote |-> Some(pool[t[i]].quotes[k]), explanation |-> None]]
         \o ExampleRowsOf(pool, t, i + 1)

\* the database that holds the entries t of the pool: article_id and examples.id in
\* insertion order
Database(pool, t) ==
    LET ex == ExampleRowsOf(pool, t, 1)
    IN  [articles |-> [i \in 1..Len(t) |->
                          [article_id |-> i,
                           lemma |-> pool[t[i]].lemma,
                           all_lemmas |-> pool[t[i]].all_lemmas,
                           word_class |-> pool[t[i]].word_class,
                           inflections |-> pool[t[i]].inflections,
                           etymology |-> pool[t[i]].etymology,
                           homonym_number |-> pool[t[i]].homonym_number]],
         definitions |-> DefinitionRows(pool, t, 1),
         examples |-> [k \in 1..Len(ex) |->
                          [id |-> k, article_id |-> ex[k].article_id, quote |-> ex[k].quote,
                           explanation |-> ex[k].explanation]]]

\* the mode flags of a command line: none, one, or two of them at once
FlagSets == {{}, {"all_examples"}, {"expressions_only"}, {"fuzzy"}, {"anywhere"},
             {"all_examples", "expressions_only"}, {"expressions_only", "fuzzy"},
             {"fuzzy", "anywhere"}}

DefaultThreshold == <<6, 10>>

Thresholds == {DefaultThreshold, <<1, 1>>}

\* --threshold matters to the fuzzy search alone: it varies with -f only
CommandLines(queries) ==
    {[query |-> q, all_examples |-> "all_examples" \in f,
      expressions_only |-> "expressions_only" \in f, fuzzy |-> "fuzzy" \in f,
      anywhere |-> "anywhere" \in f, threshold |-> th] :
        q \in queries,
        f \in FlagSets,
        th \in Thresholds} \ {a \in [query : queries, all_examples : BOOLEAN,
                                     expressions_only : BOOLEAN, fuzzy : BOOLEAN,
                                     anywhere : BOOLEAN, threshold : Thresholds] :
                                  ~a.fuzzy /\ a.threshold # DefaultThreshold}

Scenarios ==
    {<<Database(HusEntries, t), a>> : t \in Tables(HusEntries), a \in CommandLines(HusQueries)}
    \cup
    {<<Database(GaaEntries, t), a>> : t \in Tables(GaaEntries), a \in CommandLines(GaaQueries)}

(***************************************************************************)
(* cli.main: the query pipeline.                                           *)
(***************************************************************************)
\* the settings config-wizard.py offers as defaults
DefaultConfig ==
    [pagination |-> TRUE, default_limit |-> 50, limit_with_pagination |-> 500, page_size |-> 0]

\* the command line a with the argparse defaults of the options it does not give;
\* typed_limit is the --limit typed, if any (argparse itself keeps no trace of it)
Options(a, cfg) ==
    [query |-> a.query, all_examples |-> a.all_examples,
     expressions_only |-> a.expressions_only, fuzzy |-> a.fuzzy, anywhere |-> a.anywhere,
     threshold |-> a.threshold, limit |-> cfg.default_limit, typed_limit |-> None,
     paginate |-> FALSE, no_paginate |-> FALSE, adj |-> FALSE, verb |-> FALSE,
     noun |-> FALSE, adv |-> FALSE, config |-> FALSE, test |-> FALSE, stats |-> FALSE]

\* nothing formatted yet
NothingDisplayed == [entries |-> <<>>, examples |-> <<>>]

\* paginate_output not called yet
PagerIdle ==
    [state |-> "IDLE", paginate |-> FALSE, text |-> <<>>, logical_lines |-> <<>>,
     lines |-> 0, page_height |-> 0,
     offset |-> 0, pages |-> <<>>, chunks |-> <<>>, prompts |-> 0, reads |-> 0, notice |-> None]

\* main() entered with the command line a, the database db opened
Start(db, a) ==
    /\ conn = db
    /\ db_file = db
    /\ error = None
    /\ search_config = DefaultConfig
    /\ args = Options(a, DefaultConfig)
    /\ exit_status = None
    /\ displayed = NothingDisplayed
    /\ pager = PagerIdle
    /\ stdin = <<>>
    /\ pc = "start"
    /\ search_type = "exact"
    /\ clean_query = <<>>
    /\ original_query = <<>>
    /\ results = <<>>
    /\ examples = <<>>
    /\ query_variants = <<>>
    /\ calls = <<>>

Init ==
    /\ character_replacement \in BOOLEAN
    /\ \E sc \in Scenarios : Start(sc[1], sc[2])

Call(fn, query, include_expr, returned) ==
    [fn |-> fn, query |-> query, include_expr |-> include_expr, returned |-> returned]

\* search_type, clean_query, original_query = parse_search_query(args.query)
ParseQuery ==
    /\ pc = "start"
    /\ LET parsed == parse_search_query(args.query)
       IN  /\ search_type' = parsed.search_type
           /\ clean_query' = parsed.query
           /\ original_query' = parsed.original_query
    /\ pc' = "parsed"
    /\ UNCHANGED rest
    /\ UNCHANGED <<character_replacement, conn, args, results, examples, query_variants, calls>>

\* if args.all_examples: examples = search_all_examples(conn, args.query) ... return
AllExamples ==
    /\ pc = "parsed"
    /\ args.all_examples
    /\ examples' = search_all_examples(conn, args.query)
    /\ query_variants' = apply_character_replacement(args.query)
    /\ calls' = Append(calls, Call("search_all_examples", args.query, TRUE, examples'))
    /\ pc' = "done"
    /\ UNCHANGED rest
    /\ UNCHANGED <<character_replacement, conn, args, search_type, clean_query,
                   original_query, results>>

\* elif args.expressions_only: ... results = search_expressions_only(conn, clean_query)
SearchExpressionsOnly ==
    /\ pc = "parsed"
    /\ ~args.all_examples /\ args.expressions_only
    /\ search_type' = "expressions_only"
    /\ clean_query' = args.query
    /\ results' = search_expressions_only(conn, clean_query')
    /\ query_variants' = apply_character_replacement(clean_query')
    /\ calls' = Append(calls, Call("search_expressions_only", clean_query', TRUE, results'))
    /\ pc' = "searched"
    /\ UNCHANGED rest
    /\ UNCHANGED <<character_replacement, conn, args, original_query, examples>>

\* elif args.fuzzy: ... results = search_fuzzy(conn, clean_query, args.threshold, False)
SearchFuzzy ==
    /\ pc = "parsed"
    /\ ~args.all_examples /\ ~args.expressions_only /\ args.fuzzy
    /\ search_type' = "fuzzy"
    /\ clean_query' = args.query
    /\ results' = search_fuzzy(conn, clean_query', args.threshold, FALSE)
    /\ query_variants' = apply_character_replacement(clean_query')
    /\ calls' = Append(calls, Call("search_fuzzy", clean_query', FALSE, results'))
    /\ pc' = "searched"
    /\ UNCHANGED rest
    /\ UNCHANGED <<character_replacement, conn, args, original_query, examples>>

\* elif args.anywhere: ... results = search_anywhere(conn, clean_query, False)
SearchAnywhere ==
    /\ pc = "parsed"
    /\ ~args.all_examples /\ ~args.expressions_only /\ ~args.fuzzy /\ args.anywhere
    /\ search_type' = "anywhere"
    /\ clean_query' = args.query
    /\ results' = search_anywhere(conn, clean_query', FALSE)
    /\ query_variants' = apply_character_replacement(clean_query')
    /\ calls' = Append(calls, Call("search_anywhere", clean_query', FALSE, results'))
    /\ pc' = "searched"
    /\ UNCHANGED rest
    /\ UNCHANGED <<character_replacement, conn, args, original_query, examples>>

\* a dispatch that does not look at the mode flags
NoModeFlag_Ignored == TRUE

\* none of the branches "if args.all_examples / elif args.expressions_only /
\* elif args.fuzzy / elif args.anywhere" is taken
NoModeFlag ==
    ~args.all_examples /\ ~args.expressions_only /\ ~args.fuzzy /\ ~args.anywhere

\* elif search_type == 'prefix': results = search_prefix(conn, clean_query, False)
SearchPrefix ==
    /\ pc = "parsed"
    /\ NoModeFlag /\ search_type = "prefix"
    /\ results' = search_prefix(conn, clean_query, FALSE)
    /\ query_variants' = apply_character_replacement(clean_query)
    /\ calls' = Append(calls, Call("search_prefix", clean_query, FALSE, results'))
    /\ pc' = "searched"
    /\ UNCHANGED rest
    /\ UNCHANGED <<character_replacement, conn, args, search_type, clean_query,
                   original_query, examples>>

\* elif search_type == 'anywhere_term': results = search_anywhere_term(...)
SearchAnywhereTerm ==
    /\ pc = "parsed"
    /\ NoModeFlag /\ search_type = "anywhere_term"
    /\ results' = search_anywhere_term(conn, clean_query, FALSE)
    /\ query_variants' = apply_character_replacement(clean_query)
    /\ calls' = Append(calls, Call("search_anywhere_term", clean_query, FALSE, results'))
    /\ pc' = "searched"
    /\ UNCHANGED rest
    /\ UNCHANGED <<character_replacement, conn, args, search_type, clean_query,
                   original_query, examples>>

\* elif search_type == 'fulltext': results = search_fulltext(conn, clean_query, False)
SearchFulltext ==
    /\ pc = "parsed"
    /\ NoModeFlag /\ search_type = "fulltext"
    /\ results' = search_fulltext(conn, clean_query, FALSE)
    /\ query_variants' = apply_character_replacement(clean_query)
    /\ calls' = Append(calls, Call("search_fulltext", clean_query, FALSE, results'))
    /\ pc' = "searched"
    /\ UNCHANGED rest
    /\ UNCHANGED <<character_replacement, conn, args, search_type, clean_query,
                   original_query, examples>>

\* else: results = search_exact(conn, clean_query, include_expr=True)
SearchExact ==
    /\ pc = "parsed"
    /\ NoModeFlag /\ search_type \notin {"prefix", "anywhere_term", "fulltext"}
    /\ results' = search_exact(conn, clean_query, TRUE)
    /\ query_variants' = apply_character_replacement(clean_query)
    /\ calls' = Append(calls, Call("search_exact", clean_query, TRUE, results'))
    /\ pc' = "exact_done"
    /\ UNCHANGED rest
    /\ UNCHANGED <<character_replacement, conn, args, search_type, clean_query,
                   original_query, examples>>

\* a fallback condition that forgets "not results"
FallbackNeeded_Always == search_type = "exact"

\* the condition of the fallback: if not results and search_type == 'exact'
FallbackNeeded == results = <<>> /\ search_type = "exact"

\* results = search_prefix(conn, clean_query, include_expr=True)
FallbackPrefix ==
    /\ pc = "exact_done"
    /\ FallbackNeeded
    /\ results' = search_prefix(conn, clean_query, TRUE)
    /\ query_variants' = apply_character_replacement(clean_query)
    /\ calls' = Append(calls, Call("search_prefix", clean_query, TRUE, results'))
    /\ pc' = "searched"
    /\ UNCHANGED rest
    /\ UNCHANGED <<character_replacement, conn, args, search_type, clean_query,
                   original_query, examples>>

\* the exact search found something: no fallback
KeepExact ==
    /\ pc = "exact_done"
    /\ ~FallbackNeeded
    /\ pc' = "searched"
    /\ UNCHANGED rest
    /\ UNCHANGED <<character_replacement, conn, args, search_type, clean_query,
                   original_query, results, examples, query_variants, calls>>

Next ==
    \/ ParseQuery
    \/ AllExamples
    \/ SearchExpressionsOnly
    \/ SearchFuzzy
    \/ SearchAnywhere
    \/ SearchPrefix
    \/ SearchAnywhereTerm
    \/ SearchFulltext
    \/ SearchExact
    \/ FallbackPrefix
    \/ KeepExact

Spec == Init /\ [][Next]_vars

(***************************************************************************)
(* The classifier on its own: every query of at most MaxQueryLen           *)
(* characters over the syntax characters and two letters.                  *)
(***************************************************************************)
MaxQueryLen == 3

ParseAlphabet == {"%", "@", "a", "b"}

Strings(alphabet, n) == UNION {[1..k -> alphabet] : k \in 1..n}

NoFlags(q) ==
    [query |-> q, all_examples |-> FALSE, expressions_only |-> FALSE, fuzzy |-> FALSE,
     anywhere |-> FALSE, threshold |-> DefaultThreshold]

InitParse ==
    /\ character_replacement = TRUE
    /\ \E q \in Strings(ParseAlphabet, MaxQueryLen) : Start(Database(HusEntries, <<>>), NoFlags(q))

SpecParse == InitParse /\ [][ParseQuery]_vars

(***************************************************************************)
(* The variant expander inside the searches: every term of at most         *)
(* MaxTermLen letters, plain under each mode flag and with each special    *)
(* syntax, on a dictionary of one entry.                                   *)
(***************************************************************************)
MaxTermLen == 4

TermAlphabet == {"a", "e", "o", "g"}

OneFlag(q, f) ==
    [query |-> q, all_examples |-> f = "all_examples",
     expressions_only |-> f = "expressions_only", fuzzy |-> f = "fuzzy",
     anywhere |-> f = "anywhere", threshold |-> DefaultThreshold]

TermCommandLines ==
    LET terms == Strings(TermAlphabet, MaxTermLen)
    IN  {OneFlag(t, f) : t \in terms,
                         f \in {"", "all_examples", "expressions_only", "fuzzy", "anywhere"}}
        \cup {NoFlags(<<"%">> \o t) : t \in terms}
        \cup {NoFlags(t \o <<"@">>) : t \in terms}
        \cup {NoFlags(<<"@">> \o t) : t \in terms}

InitVariants ==
    /\ character_replacement \in BOOLEAN
    /\ \E a \in TermCommandLines : Start(Database(GaaEntries, <<1>>), a)

SpecVariants == InitVariants /\ [][Next]_vars

(***************************************************************************)
(* cli.main before the search: the options that end the run, the           *)
(* validation of the command line, the limit and the database connection.  *)
(***************************************************************************)
\* the frame of the steps that touch neither the search nor the pager
SearchState == <<character_replacement, search_type, clean_query, original_query, results,
                 examples, query_variants, calls>>

\* a close that leaves the connection open
close_Skipped(c) == c

\* conn.close(): the connection after it
close(c) == None

\* main() returns or calls sys.exit(status); "finally: conn.close()" where it applies
Exit(status) ==
    /\ exit_status' = Some(status)
    /\ pc' = "exited"

\* if args.config: subprocess.run(...); return -- sys.exit(1) when the launch raises
ConfigWizard ==
    /\ pc = "main"
    /\ args.config
    /\ \E status \in {0, 1} : Exit(status)
    /\ UNCHANGED <<conn, args, search_config, db_file, error, displayed, pager, stdin>>
    /\ UNCHANGED SearchState

\* not args.test and not args.query and not args.stats
QueryMissing == ~args.test /\ args.query = <<>> /\ ~args.stats

\* if not args.test and not args.query and not args.stats: sys.exit(1)
MissingQuery ==
    /\ pc = "main"
    /\ ~args.config
    /\ QueryMissing
    /\ Exit(1)
    /\ UNCHANGED <<conn, args, search_config, db_file, error, displayed, pager, stdin>>
    /\ UNCHANGED SearchState

\* a validation that lets every threshold through
ThresholdValid_Any(threshold) == TRUE

\* 0.0 <= args.threshold <= 1.0
ThresholdValid(threshold) == FracLeq(<<0, 1>>, threshold) /\ FracLeq(threshold, <<1, 1>>)

\* if not 0.0 <= args.threshold <= 1.0: sys.exit(1)
BadThreshold ==
    /\ pc = "main"
    /\ ~args.config
    /\ ~QueryMissing
    /\ ~ThresholdValid(args.threshold)
    /\ Exit(1)
    /\ UNCHANGED <<conn, args, search_config, db_file, error, displayed, pager, stdin>>
    /\ UNCHANGED SearchState

\* if (search_config.pagination or args.paginate) and args.limit ==
\* search_config.default_limit: args.limit = search_config.limit_with_pagination
AdjustedLimit(a, cfg) ==
    IF (cfg.pagination \/ a.paginate) /\ a.limit = cfg.default_limit
    THEN cfg.limit_with_pagination
    ELSE a.limit

\* the command line is valid: the limit is adjusted
AdjustLimit ==
    /\ pc = "main"
    /\ ~args.config
    /\ ~QueryMissing
    /\ ThresholdValid(args.threshold)
    /\ args' = [args EXCEPT !.limit = AdjustedLimit(args, search_config)]
    /\ pc' = "adjusted"
    /\ UNCHANGED <<conn, search_config, db_file, error, exit_status, displayed, pager, stdin>>
    /\ UNCHANGED SearchState

\* conn = setup_database(args.db)
SetupDatabase ==
    /\ pc = "adjusted"
    /\ conn' = db_file
    /\ pc' = IF args.test THEN "test" ELSE IF args.stats THEN "stats" ELSE "start"
    /\ UNCHANGED <<args, search_config, db_file, error, exit_status, displayed, pager, stdin>>
    /\ UNCHANGED SearchState

\* if args.test: run_test_searches(conn, args); return
TestMode ==
    /\ pc = "test"
    /\ Exit(0)
    /\ UNCHANGED <<conn, args, search_config, db_file, error, displayed, pager, stdin>>
    /\ UNCHANGED SearchState

\* if args.stats: display_statistics(conn); conn.close(); return
StatsMode ==
    /\ pc = "stats"
    /\ conn' = close(conn)
    /\ Exit(0)
    /\ UNCHANGED <<args, search_config, db_file, error, displayed, pager, stdin>>
    /\ UNCHANGED SearchState

(***************************************************************************)
(* cli.main after the search: the word class filter, the limit and the     *)
(* text handed to the pager.                                               *)
(***************************************************************************)
\* the characters of the word class names
WordClassText ==
    ("NOUN" :> <<"N", "O", "U", "N">>) @@ ("VERB" :> <<"V", "E", "R", "B">>) @@
    ("ADJ" :> <<"A", "D", "J">>) @@ ("ADV" :> <<"A", "D", "V">>) @@
    ("EXPR" :> <<"E", "X", "P", "R">>)

\* a filter that keeps every result
HasWordClass_Any(result, name) == TRUE

\* result[3] and 'ADJ' in result[3]
HasWordClass(result, name) ==
    /\ ~IsNone(result.word_class)
    /\ Contains(WordClassText[Val(result.word_class)], WordClassText[name])

\* [result for result in results if result[3] and 'ADJ' in result[3]]
KeepWordClass(rs, name) == SelectSeq(rs, LAMBDA r : HasWordClass(r, name))

\* if args.adj: ... elif args.verb: ... elif args.noun: ... elif args.adv: ...
FilterWordClass ==
    /\ pc = "searched"
    /\ results' = IF args.adj THEN KeepWordClass(results, "ADJ")
                  ELSE IF args.verb THEN KeepWordClass(results, "VERB")
                  ELSE IF args.noun THEN KeepWordClass(results, "NOUN")
                  ELSE IF args.adv THEN KeepWordClass(results, "ADV")
                  ELSE results
    /\ pc' = "filtered"
    /\ UNCHANGED rest
    /\ UNCHANGED <<character_replacement, conn, args, search_type, clean_query,
                   original_query, examples, query_variants, calls>>

\* a test that takes every list for a list with something in it
NoneFound_Never(rs) == FALSE

\* not results / not examples: the list is empty
NoneFound(rs) == rs = <<>>

\* if not results: print("No results found."); return
NoResults ==
    /\ pc = "filtered"
    /\ NoneFound(results)
    /\ conn' = close(conn)
    /\ Exit(0)
    /\ UNCHANGED <<args, search_config, db_file, error, displayed, pager, stdin>>
    /\ UNCHANGED SearchState

\* s[:n] of Python, n of either sign
Take(s, n) ==
    IF n >= 0 THEN SubSeq(s, 1, Min({n, Len(s)}))
    ELSE SubSeq(s, 1, IF Len(s) + n > 0 THEN Len(s) + n ELSE 0)

\* for i, result in enumerate(results[:args.limit]): ... format_result(...)
FormatResults ==
    /\ pc = "filtered"
    /\ ~NoneFound(results)
    /\ displayed' = [entries |-> Take(results, args.limit), examples |-> <<>>]
    /\ pc' = "formatted"
    /\ UNCHANGED <<conn, args, search_config, db_file, error, exit_status, pager, stdin>>
    /\ UNCHANGED SearchState

\* if not examples: print("No examples found ..."); return
NoExamples ==
    /\ pc = "done"
    /\ NoneFound(examples)
    /\ conn' = close(conn)
    /\ Exit(0)
    /\ UNCHANGED <<args, search_config, db_file, error, displayed, pager, stdin>>
    /\ UNCHANGED SearchState

\* for quote, explanation, lemma, word_class in examples[:args.limit]: ...
FormatExamples ==
    /\ pc = "done"
    /\ ~NoneFound(examples)
    /\ displayed' = [entries |-> <<>>, examples |-> Take(examples, args.limit)]
    /\ pc' = "formatted"
    /\ UNCHANGED <<conn, args, search_config, db_file, error, exit_status, pager, stdin>>
    /\ UNCHANGED SearchState

(***************************************************************************)
(* pagination.paginate_output: the pager.  RENDERING emits lines up to the *)
(* page height, AWAITING_INPUT has shown the prompt and reads one line of  *)
(* keyboard input, DONE has emitted everything or was quit.  A line is a   *)
(* unit of the rendered text bounded by newlines.                          *)
(***************************************************************************)
\* the most lines a text has, the largest page height, the most keys typed
MaxLines == 12

MaxPageHeight == 5

MaxKeys == 2

\* a pager in which force_pagination beats disable_pagination
ShouldPaginate_ForceWins(cfg, force_pagination, disable_pagination) ==
    force_pagination \/ (cfg.pagination /\ ~disable_pagination)

\* the text is paged unless paging is disabled by the caller, or by the
\* configuration without the caller forcing it
ShouldPaginate(cfg, force_pagination, disable_pagination) ==
    ~disable_pagination /\ (cfg.pagination \/ force_pagination)

\* the configured page height, or the height of the terminal when it is 0
PageHeight(cfg, terminal_height) ==
    IF cfg.page_size = 0 THEN terminal_height ELSE cfg.page_size

\* '\n'.join(lines)
RECURSIVE JoinLines(_)
JoinLines(ls) ==
    IF ls = <<>> THEN <<>>
    ELSE IF Len(ls) = 1 THEN ls[1]
    ELSE ls[1] \o <<"\n">> \o JoinLines(Tail(ls))

\* a pager that cuts the text every four characters
RECURSIVE LogicalLines_ByWidth(_)
LogicalLines_ByWidth(text) ==
    IF Len(text) <= 4 THEN <<text>>
    ELSE <<SubSeq(text, 1, 4)>> \o LogicalLines_ByWidth(SubSeq(text, 5, Len(text)))

\* the logical display lines of a text: the units bounded by literal newlines,
\* however many characters and escape sequences they hold
LogicalLines(text) == Split(text, <<"\n">>)

\* paginate_output(text, force_pagination, disable_pagination) entered
paginate_output(text, cfg, force_pagination, disable_pagination, terminal_height) ==
    LET logical_lines == LogicalLines(text)
    IN  [state |-> "RENDERING",
         paginate |-> ShouldPaginate(cfg, force_pagination, disable_pagination),
         text |-> text,
         logical_lines |-> logical_lines,
         lines |-> Len(logical_lines),
         page_height |-> PageHeight(cfg, terminal_height),
         offset |-> 0,
         pages |-> <<>>,
         chunks |-> <<>>,
         prompts |-> 0,
         reads |-> 0,
         notice |-> None]

\* the keys that continue, and the key that quits
ContinueKeys == {"", " "}
QuitKey == "q"
Keys == ContinueKeys \cup {QuitKey}

\* a page as long as the text that remains
PageLength_Unbounded(p) == p.lines - p.offset

\* the lines of the next page: up to the page height, all that remains when
\* pagination is bypassed
PageLength(p) ==
    IF p.paginate THEN Min({p.page_height, p.lines - p.offset}) ELSE p.lines - p.offset

\* a pager that prompts after every full page
MoreRemains_AfterFullPage(p, emitted) == emitted - p.offset = p.page_height

\* more content remains after the page that ends at line emitted
MoreRemains(p, emitted) == emitted < p.lines

\* the text of the page from the line after offset to the line emitted
PageText(p, emitted) == JoinLines(SubSeq(p.logical_lines, p.offset + 1, emitted))

\* RENDERING: one page is emitted; the prompt is shown when more content remains
Render ==
    /\ pc = "paging"
    /\ pager.state = "RENDERING"
    /\ LET emitted == pager.offset + PageLength(pager)
           more == MoreRemains(pager, emitted)
       IN  pager' = [pager EXCEPT !.offset = emitted,
                                  !.pages = Append(@, PageLength(pager)),
                                  !.chunks = Append(@, PageText(pager, emitted)),
                                  !.prompts = IF more THEN @ + 1 ELSE @,
                                  !.state = IF more THEN "AWAITING_INPUT" ELSE "DONE"]
    /\ UNCHANGED <<conn, args, pc, search_config, db_file, error, exit_status, displayed, stdin>>
    /\ UNCHANGED SearchState

\* AWAITING_INPUT -> RENDERING on space, enter or empty input
ContinuePaging ==
    /\ pc = "paging"
    /\ pager.state = "AWAITING_INPUT"
    /\ stdin # <<>> /\ Head(stdin) \in ContinueKeys
    /\ pager' = [pager EXCEPT !.state = "RENDERING", !.reads = @ + 1]
    /\ stdin' = Tail(stdin)
    /\ UNCHANGED <<conn, args, pc, search_config, db_file, error, exit_status, displayed>>
    /\ UNCHANGED SearchState

\* the truncation notice: how many lines were not shown
Truncation(p) == Some(p.lines - p.offset)

\* AWAITING_INPUT -> DONE on q, with the truncation notice
QuitPaging ==
    /\ pc = "paging"
    /\ pager.state = "AWAITING_INPUT"
    /\ stdin # <<>> /\ Head(stdin) = QuitKey
    /\ pager' = [pager EXCEPT !.state = "DONE", !.reads = @ + 1,
                               !.notice = Truncation(pager)]
    /\ stdin' = Tail(stdin)
    /\ UNCHANGED <<conn, args, pc, search_config, db_file, error, exit_status, displayed>>
    /\ UNCHANGED SearchState

\* a pager that keeps waiting when the input has ended
InputEnded_Never == FALSE

\* the input stream is closed or exhausted
InputEnded == stdin = <<>>

\* AWAITING_INPUT -> DONE at the end of the input: an implicit quit
EndOfInput ==
    /\ pc = "paging"
    /\ pager.state = "AWAITING_INPUT"
    /\ InputEnded
    /\ pager' = [pager EXCEPT !.state = "DONE", !.notice = Truncation(pager)]
    /\ UNCHANGED <<conn, args, pc, search_config, db_file, error, exit_status, displayed, stdin>>
    /\ UNCHANGED SearchState

\* a part of the output between a colour and Colors.END; "ESC" is the one character \x1b
Styled(s) == <<"ESC", "[", "9", "2", "m">> \o s \o <<"ESC", "[", "0", "m">>

Letters == <<"a", "b", "c", "d", "e", "f", "g", "h", "i", "j", "k", "l", "m", "n">>

\* the k-th line of the output: a styled word, and every third line is empty
\* (an output part that begins with a newline)
OutputLine(k) ==
    IF k % 3 = 0 THEN <<>> ELSE Styled(<<Letters[((k - 1) % Len(Letters)) + 1]>>)

\* full_output = '\n'.join(output_parts), an output of n lines
FullOutput(n) == JoinLines([k \in 1..n |-> OutputLine(k)])

\* the heights the terminal can report; it is asked only when page_size is 0
TerminalHeights(cfg) == IF cfg.page_size = 0 THEN 1..MaxPageHeight ELSE {MaxPageHeight}

\* the outputs of one to MaxLines lines
Outputs == {FullOutput(n) : n \in 1..MaxLines}

\* paginate_output(full_output, force_pagination=args.paginate,
\*                 disable_pagination=args.no_paginate)
PaginateOutput ==
    /\ pc = "formatted"
    /\ \E full_output \in Outputs, terminal_height \in TerminalHeights(search_config) :
           pager' = paginate_output(full_output, search_config, args.paginate,
                                    args.no_paginate, terminal_height)
    /\ pc' = "paging"
    /\ UNCHANGED <<conn, args, search_config, db_file, error, exit_status, displayed, stdin>>
    /\ UNCHANGED SearchState

\* paginate_output has returned: finally: conn.close()
Finish ==
    /\ pc = "paging"
    /\ pager.state = "DONE"
    /\ conn' = close(conn)
    /\ Exit(0)
    /\ UNCHANGED <<args, search_config, db_file, error, displayed, pager, stdin>>
    /\ UNCHANGED SearchState


(***************************************************************************)
(* The pager under every configuration, page height, text length and       *)
(* keyboard input: main() runs one exact search and pages its output.      *)
(***************************************************************************)
\* main() entered with the command line a, the configuration cfg, the database file
\* db and the keyboard input
StartMain(db, a, cfg, input) ==
    /\ conn = None
    /\ db_file = db
    /\ error = None
    /\ search_config = cfg
    /\ args = a
    /\ pc = "main"
    /\ search_type = "exact"
    /\ clean_query = <<>>
    /\ original_query = <<>>
    /\ results = <<>>
    /\ examples = <<>>
    /\ query_variants = <<>>
    /\ calls = <<>>
    /\ exit_status = None
    /\ displayed = NothingDisplayed
    /\ pager = PagerIdle
    /\ stdin = input

\* the keyboard inputs of at most MaxKeys lines
KeyStreams == UNION {[1..k -> Keys] : k \in 0..MaxKeys}

\* the configurations of the pager: page_size 0 is the height of the terminal
PagerConfigs ==
    {[pagination |-> p, default_limit |-> DefaultConfig.default_limit,
      limit_with_pagination |-> DefaultConfig.limit_with_pagination, page_size |-> h] :
        p \in BOOLEAN, h \in 0..MaxPageHeight}

InitPager ==
    /\ character_replacement = TRUE
    /\ \E cfg \in PagerConfigs, p \in BOOLEAN, P \in BOOLEAN, input \in KeyStreams :
           StartMain(Database(HusEntries, <<1>>),
                     [Options(NoFlags(<<"h", "u", "s">>), cfg)
                          EXCEPT !.paginate = p, !.no_paginate = P],
                     cfg, input)

NextPager ==
    \/ AdjustLimit
    \/ SetupDatabase
    \/ ParseQuery
    \/ SearchExact
    \/ KeepExact
    \/ FilterWordClass
    \/ FormatResults
    \/ PaginateOutput
    \/ Render
    \/ ContinuePaging
    \/ QuitPaging
    \/ EndOfInput
    \/ Finish

SpecPager == InitPager /\ [][NextPager]_vars

\* the pager is scheduled as long as it can take a step: main() is one thread that
\* runs to its end, and a read of the keyboard returns when the input has ended
SpecPagerLive == SpecPager /\ WF_vars(NextPager)

(***************************************************************************)
(* main() from its command line to the formatted output: every kind of     *)
(* run, the thresholds around the valid range, the limits, the word class  *)
(* filters, on dictionaries of at most MaxEntries entries.                 *)
(***************************************************************************)
FortEntries == <<
    [lemma |-> <<"f", "o", "r", "t">>,
     all_lemmas |-> Some(<<"f", "o", "r", "t">>),
     word_class |-> Some("NOUN"),
     inflections |-> Some(<<"f", "o", "r", "t", " ", "|", " ", "f", "o", "r", "t", "e", "t">>),
     etymology |-> None,
     homonym_number |-> Some(1),
     defs |-> <<<<"f", "e", "s", "t", "n", "i", "n", "g">>>>,
     quotes |-> <<<<"e", "t", " ", "f", "o", "r", "t">>>>],
    [lemma |-> <<"f", "o", "r", "t">>,
     all_lemmas |-> Some(<<"f", "o", "r", "t">>),
     word_class |-> Some("ADJ"),
     inflections |-> Some(<<"f", "o", "r", "t", " ", "|", " ", "f", "o", "r", "t", "e">>),
     etymology |-> None,
     homonym_number |-> Some(2),
     defs |-> <<<<"r", "a", "s", "k">>>>,
     quotes |-> <<>>],
    [lemma |-> <<"f", "o", "r", "t">>,
     all_lemmas |-> Some(<<"f", "o", "r", "t">>),
     word_class |-> Some("ADV"),
     inflections |-> None,
     etymology |-> None,
     homonym_number |-> None,
     defs |-> <<>>,
     quotes |-> <<<<"d", "e", "t", " ", "g", "i", "k", "k", " ", "f", "o", "r", "t">>>>],
    [lemma |-> <<"f", "o", "r", "t", "e">>,
     all_lemmas |-> Some(<<"f", "o", "r", "t", "e">>),
     word_class |-> Some("VERB"),
     inflections |-> Some(<<"f", "o", "r", "t", "e", "r", " ", "|", " ", "f", "o", "r", "t">>),
     etymology |-> None,
     homonym_number |-> None,
     defs |-> <<>>,
     quotes |-> <<>>],
    [lemma |-> <<"f", "o", "r", "t", " ", "g", "j", "o", "r", "t">>,
     all_lemmas |-> Some(<<"f", "o", "r", "t", " ", "g", "j", "o", "r", "t">>),
     word_class |-> Some("EXPR"),
     inflections |-> None,
     etymology |-> None,
     homonym_number |-> None,
     defs |-> <<>>,
     quotes |-> <<>>],
    [lemma |-> <<"f", "o", "r", "t">>,
     all_lemmas |-> None,
     word_class |-> None,
     inflections |-> None,
     etymology |-> None,
     homonym_number |-> None,
     defs |-> <<>>,
     quotes |-> <<>>]
>>

\* the tables of at most MaxEntries entries of a pool, in the order of the pool
OrderedTables(pool) == {t \in Tables(pool) : \A i, j \in 1..Len(t) : i < j => t[i] < t[j]}

Fort == <<"f", "o", "r", "t">>

\* one command line per branch of the search dispatch: the query syntaxes, a
\* query without an exact match, a query of one special character, and each
\* mode flag
SearchCommands ==
    {NoFlags(q) : q \in {Fort, <<"f", "o", "r">>, Fort \o <<"@">>, <<"@">> \o Fort,
                         <<"%">> \o Fort, <<"%">>, <<"@">>}}
    \cup {OneFlag(Fort, f) : f \in {"all_examples", "expressions_only", "fuzzy", "anywhere"}}

\* thresholds below, at the ends of, inside and above [0.0, 1.0]
CliThresholds == {<<0 - 1, 10>>, <<0, 1>>, DefaultThreshold, <<1, 1>>, <<11, 10>>}

\* the runs that do not search: --test, --stats, --config, and no query at all
OtherRuns(cfg) ==
    LET a == Options(NoFlags(Fort), cfg)
    IN  {[a EXCEPT !.test = TRUE], [a EXCEPT !.stats = TRUE], [a EXCEPT !.config = TRUE],
         [a EXCEPT !.query = <<>>], [a EXCEPT !.query = <<>>, !.stats = TRUE]}

\* every kind of run with every threshold
ThresholdRuns ==
    {<<Database(FortEntries, <<1, 2, 3>>), [a EXCEPT !.threshold = th], DefaultConfig>> :
        a \in {Options(c, DefaultConfig) : c \in SearchCommands} \cup OtherRuns(DefaultConfig),
        th \in CliThresholds}

\* configurations with small limits
LimitConfigs ==
    {[pagination |-> p, default_limit |-> d, limit_with_pagination |-> 3, page_size |-> 0] :
        p \in BOOLEAN, d \in {1, 2}}

\* --limit not given, or given as 1 or 2
WithLimit(a, n) == IF n = 0 THEN a ELSE [a EXCEPT !.limit = n, !.typed_limit = Some(n)]

\* searches and example searches under every limit, with and without -p
LimitRuns ==
    {<<Database(FortEntries, t), WithLimit([Options(c, cfg) EXCEPT !.paginate = p], n), cfg>> :
        t \in OrderedTables(FortEntries),
        c \in {NoFlags(Fort), NoFlags(<<"%">> \o Fort), OneFlag(Fort, "all_examples")},
        cfg \in LimitConfigs, p \in BOOLEAN, n \in 0..2}

\* the word class flags of a command line: none, one, or two of them at once
FilterSets == {{}, {"adj"}, {"verb"}, {"noun"}, {"adv"}, {"noun", "verb"}, {"adj", "adv"}}

\* every search under every word class filter, without --limit and with --limit 1
FilterRuns ==
    {<<Database(FortEntries, t),
       WithLimit([Options(c, DefaultConfig) EXCEPT !.adj = "adj" \in f, !.verb = "verb" \in f,
                                                   !.noun = "noun" \in f, !.adv = "adv" \in f],
                 n),
       DefaultConfig>> :
        t \in OrderedTables(FortEntries), c \in SearchCommands, f \in FilterSets, n \in 0..1}

\* a fuzzy search for a form that one entry has as its second written form
FuzzyRuns ==
    {<<Database(GaaEntries, t), Options(OneFlag(<<"g", "a", "a", "r", "d">>, "fuzzy"), DefaultConfig),
       DefaultConfig>> : t \in OrderedTables(GaaEntries)}

InitCli ==
    /\ character_replacement = TRUE
    /\ \E run \in ThresholdRuns \cup LimitRuns \cup FilterRuns \cup FuzzyRuns :
           StartMain(run[1], run[2], run[3], <<>>)

NextCli ==
    \/ ConfigWizard
    \/ MissingQuery
    \/ BadThreshold
    \/ AdjustLimit
    \/ SetupDatabase
    \/ TestMode
    \/ StatsMode
    \/ Next
    \/ FilterWordClass
    \/ NoResults
    \/ FormatResults
    \/ NoExamples
    \/ FormatExamples

SpecCli == InitCli /\ [][NextCli]_vars

(***************************************************************************)
(* main()'s try block when it does not run to its end: a retrieval raises, *)
(* or the user interrupts the run.  "except KeyboardInterrupt" prints a    *)
(* notice, "except Exception" prints the error and calls sys.exit(1), and  *)
(* "finally" closes the connection in both cases.                          *)
(***************************************************************************)
\* the positions of main() inside the try block
InTry == pc \in {"start", "parsed", "exact_done", "searched", "filtered", "done", "formatted",
                 "paging"}

\* the next statement of main() retrieves from the corpus: a search function,
\* the prefix search after an empty exact search, or format_result(conn, ...)
Retrieving ==
    \/ pc = "parsed"
    \/ pc = "exact_done" /\ FallbackNeeded
    \/ pc = "filtered" /\ ~NoneFound(results)

\* the retrieval raises: control leaves the try block for "except Exception"
RetrievalRaises ==
    /\ Retrieving
    /\ error' = Some("Exception")
    /\ pc' = "raised"
    /\ UNCHANGED <<conn, args, search_config, db_file, exit_status, displayed, pager, stdin>>
    /\ UNCHANGED SearchState

\* the user interrupts the run: control leaves the try block for
\* "except KeyboardInterrupt"
KeyboardInterrupt ==
    /\ InTry
    /\ error' = Some("KeyboardInterrupt")
    /\ pc' = "raised"
    /\ UNCHANGED <<conn, args, search_config, db_file, exit_status, displayed, pager, stdin>>
    /\ UNCHANGED SearchState

\* a handler that ends every run with status 0
ExceptionStatus_Zero(e) == 0

\* except KeyboardInterrupt: print(...) -- main() returns;
\* except Exception as e: print(...); sys.exit(1)
ExceptionStatus(e) == IF e = "KeyboardInterrupt" THEN 0 ELSE 1

\* the except clause, then finally: conn.close()
Unwind ==
    /\ pc = "raised"
    /\ conn' = close(conn)
    /\ Exit(ExceptionStatus(Val(error)))
    /\ UNCHANGED <<args, search_config, db_file, error, displayed, pager, stdin>>
    /\ UNCHANGED SearchState

\* dictionaries of at most one entry
SmallTables == {t \in OrderedTables(FortEntries) : Len(t) <= 1}

\* every search command, and a search whose result a word class filter empties
UnwindCommands ==
    {Options(c, DefaultConfig) : c \in SearchCommands}
    \cup {[Options(NoFlags(Fort), DefaultConfig) EXCEPT !.verb = TRUE]}

\* the user continues once, or quits
UnwindKeys == {<<"">>, <<QuitKey>>}

InitUnwind ==
    /\ character_replacement = TRUE
    /\ \E t \in SmallTables, a \in UnwindCommands, input \in UnwindKeys :
           StartMain(Database(FortEntries, t), a, DefaultConfig, input)

NextUnwind ==
    \/ AdjustLimit
    \/ SetupDatabase
    \/ Next
    \/ FilterWordClass
    \/ NoResults
    \/ FormatResults
    \/ NoExamples
    \/ FormatExamples
    \/ PaginateOutput
    \/ Render
    \/ ContinuePaging
    \/ QuitPaging
    \/ EndOfInput
    \/ Finish
    \/ RetrievalRaises
    \/ KeyboardInterrupt
    \/ Unwind

\* main() is one thread that runs to its end: an early return, the return after
\* paging, an except clause and the finally clause are executed once reached
SpecUnwind ==
    /\ InitUnwind /\ [][NextUnwind]_vars
    /\ WF_vars(NoResults) /\ WF_vars(NoExamples) /\ WF_vars(Finish) /\ WF_vars(Unwind)

(***************************************************************************)
(* Properties.                                                             *)
(***************************************************************************)
\* s without its first character, and s without its last character
DropFirst(s) == SubSeq(s, 2, Len(s))
DropLast(s) == SubSeq(s, 1, Len(s) - 1)

\* C1: parse_search_query classifies a non-empty query by the first rule that
\* matches: a leading '%' gives fulltext and removes that character only; else a
\* trailing '@' without a leading '@' gives prefix and removes the last character;
\* else a leading '@' gives anywhere_term and removes it and then one trailing '@';
\* else exact with the query unchanged.  The third value is the raw query.
C1_ClassifiedByFirstRule ==
    pc = "parsed" =>
        LET q == args.query
            first == q[1]
            last == q[Len(q)]
            inner == DropFirst(q)
        IN  /\ original_query = q
            /\ first = "%" => search_type = "fulltext" /\ clean_query = DropFirst(q)
            /\ first # "%" /\ last = "@" /\ first # "@" =>
                   search_type = "prefix" /\ clean_query = DropLast(q)
            /\ first = "@" =>
                   /\ search_type = "anywhere_term"
                   /\ clean_query = IF inner # <<>> /\ inner[Len(inner)] = "@"
                                    THEN DropLast(inner) ELSE inner
            /\ first \notin {"%", "@"} /\ last # "@" =>
                   search_type = "exact" /\ clean_query = q

\* '%a@' has been classified as (fulltext, 'a@')
C1_Witness ==
    /\ pc = "parsed"
    /\ args.query = <<"%", "a", "@">>
    /\ search_type = "fulltext"
    /\ clean_query = <<"a", "@">>

\* the candidates of the expander for a term, in order
VariantCandidates(term) ==
    <<term,
      Replace(term, <<"a", "a">>, <<"aring">>),
      Replace(term, <<"o", "e">>, <<"oslash">>),
      Replace(term, <<"a", "e">>, <<"aelig">>)>>

\* the elements of c that differ from every earlier element, in order
FirstOccurrences(c) ==
    LET keep == {i \in 1..Len(c) : \A j \in 1..(i - 1) : c[j] # c[i]}
        Nth(k) == CHOOSE i \in keep : Cardinality({j \in keep : j <= i}) = k
    IN  [k \in 1..Cardinality(keep) |-> c[Nth(k)]]

\* the term the search function called last was given
LastTerm == calls[Len(calls)].query

\* C10: the variant list of every search is the term, followed only when character
\* replacement is enabled by the term with every 'aa' replaced, with every 'oe'
\* replaced and with every 'ae' replaced, each kept only if it differs from the
\* elements before it; at most four elements, no duplicates, no variant combining
\* two substitutions; 'gaa' yields 'g' + a-ring.
C10_VariantList ==
    calls # <<>> =>
        /\ query_variants[1] = LastTerm
        /\ Len(query_variants) <= 4
        /\ \A i, j \in 1..Len(query_variants) : i # j => query_variants[i] # query_variants[j]
        /\ ~character_replacement => query_variants = <<LastTerm>>
        /\ character_replacement =>
               query_variants = FirstOccurrences(VariantCandidates(LastTerm))
        /\ character_replacement /\ LastTerm = <<"g", "a", "a">> =>
               InList(<<"g", "aring">>, query_variants)

\* 'aaoe' has been expanded to the term and its two single substitutions
C10_Witness ==
    /\ calls # <<>>
    /\ LastTerm = <<"a", "a", "o", "e">>
    /\ query_variants = <<<<"a", "a", "o", "e">>, <<"aring", "o", "e">>, <<"a", "a", "oslash">>>>

\* the position of the article with this id in a list of rows
Pos(rows, id) == CHOOSE k \in 1..Len(rows) : rows[k].article_id = id

\* l is a reordering of the rows m
SameRows(l, m) ==
    /\ Len(l) = Len(m)
    /\ {l[i] : i \in 1..Len(l)} = {m[i] : i \in 1..Len(m)}

\* C2: in every search mode the result list holds no two entries with the same
\* article_id, however many variants or predicates hit an entry.
C2_NoDuplicateIds ==
    pc \in {"searched", "exact_done"} =>
        \A i, j \in 1..Len(results) : i # j => results[i].article_id # results[j].article_id

\* a term search has returned an entry whose forms hold both variants of the query
C2_Witness ==
    /\ pc = "searched"
    /\ search_type = "anywhere_term"
    /\ Len(query_variants) = 2
    /\ \E i \in 1..Len(results) :
           /\ SqlLike(results[i].all_lemmas, Anywhere(query_variants[1]))
           /\ SqlLike(results[i].all_lemmas, Anywhere(query_variants[2]))

\* the ranking triple of the exact search, as the specification gives it
RankTriple(x) ==
    <<IF IsNone(x.homonym_number) THEN 1 ELSE Val(x.homonym_number),
      CASE x.word_class = Some("NOUN") -> 0
        [] x.word_class = Some("VERB") -> 1
        [] x.word_class = Some("ADJ") -> 2
        [] x.word_class = Some("ADV") -> 3
        [] OTHER -> 4,
      Len(x.lemma)>>

TripleLess(a, b) ==
    \/ a[1] < b[1]
    \/ a[1] = b[1] /\ a[2] < b[2]
    \/ a[1] = b[1] /\ a[2] = b[2] /\ a[3] < b[3]

\* C3: search_exact returns its matches ascending by (homonym number with absent as
\* 1, word-class priority, lemma length), and entries with equal triples keep the
\* order in which they were first seen.
C3_ExactRanking ==
    pc = "exact_done" =>
        LET hits == exact_hits(conn, clean_query, TRUE)
        IN  /\ SameRows(results, hits)
            /\ \A i, j \in 1..Len(results) :
                   i < j =>
                       /\ ~TripleLess(RankTriple(results[j]), RankTriple(results[i]))
                       /\ RankTriple(results[i]) = RankTriple(results[j]) =>
                              Pos(hits, results[i].article_id) < Pos(hits, results[j].article_id)

\* the nouns 'hus' stored with homonym numbers (none, 2, 1) came back as (none, 1, 2)
C3_Witness ==
    /\ pc = "exact_done"
    /\ Len(conn.articles) = 3
    /\ \A i \in 1..3 : conn.articles[i].word_class = Some("NOUN")
    /\ [i \in 1..3 |-> conn.articles[i].homonym_number] = <<None, Some(2), Some(1)>>
    /\ Len(results) = 3
    /\ [i \in 1..3 |-> results[i].homonym_number] = <<None, Some(1), Some(2)>>

\* the score search_fuzzy recorded for the entry with this id
Score(hits, id) == (CHOOSE m \in {hits[k] : k \in 1..Len(hits)} : m[1].article_id = id)[2]

\* C4: in the result of search_fuzzy an entry with a higher similarity score comes
\* before every entry with a lower one, whatever the lemma lengths, and entries
\* with equal scores are ordered by ascending lemma length.
C4_FuzzyRanking ==
    pc = "searched" /\ search_type = "fuzzy" =>
        LET hits == fuzzy_hits(conn, clean_query, args.threshold, FALSE)
        IN  /\ SameRows(results, [k \in 1..Len(hits) |-> hits[k][1]])
            /\ \A i, j \in 1..Len(results) :
                   i < j =>
                       LET si == Score(hits, results[i].article_id)
                           sj == Score(hits, results[j].article_id)
                       IN  /\ FracLeq(sj, si)
                           /\ FracEq(si, sj) => Len(results[i].lemma) <= Len(results[j].lemma)

\* a longer lemma with a higher score came before a shorter lemma with a lower score
C4_Witness ==
    /\ pc = "searched" /\ search_type = "fuzzy"
    /\ Len(results) >= 2
    /\ Len(results[1].lemma) > Len(results[2].lemma)
    /\ FracEq(similarity(clean_query, results[1].lemma), <<1, 1>>)
    /\ FracLess(similarity(clean_query, results[2].lemma), <<1, 1>>)
    /\ FracLeq(args.threshold, similarity(clean_query, results[2].lemma))

LengthModes ==
    {"search_prefix", "search_anywhere_term", "search_fulltext", "search_anywhere",
     "search_expressions_only"}

\* the rows the search function called last had collected before its sort
LastHits ==
    LET c == calls[Len(calls)]
    IN  CASE c.fn = "search_prefix" -> prefix_hits(conn, c.query, c.include_expr)
          [] c.fn = "search_anywhere_term" -> anywhere_term_hits(conn, c.query, c.include_expr)
          [] c.fn = "search_fulltext" -> fulltext_hits(conn, c.query, c.include_expr)
          [] c.fn = "search_anywhere" -> anywhere_hits(conn, c.query, c.include_expr)
          [] c.fn = "search_expressions_only" -> expressions_hits(conn, c.query)
          [] OTHER -> <<>>

\* C5: the results of the prefix, term, full-text, anywhere and expressions-only
\* searches are ordered by non-decreasing lemma length and by nothing else: entries
\* with lemmas of equal length keep the order in which they were first seen.
C5_LengthOnlyRanking ==
    pc = "searched" /\ calls[Len(calls)].fn \in LengthModes =>
        /\ SameRows(results, LastHits)
        /\ \A i, j \in 1..Len(results) :
               i < j =>
                   /\ Len(results[i].lemma) <= Len(results[j].lemma)
                   /\ Len(results[i].lemma) = Len(results[j].lemma) =>
                          Pos(LastHits, results[i].article_id) < Pos(LastHits, results[j].article_id)

\* a prefix search returned homonym 2 before homonym 1 of a lemma, as stored
C5_Witness ==
    /\ pc = "searched" /\ search_type = "prefix"
    /\ Len(results) >= 2
    /\ results[1].lemma = results[2].lemma
    /\ results[1].homonym_number = Some(2)
    /\ results[2].homonym_number = Some(1)

\* a character of a word for the pattern \b: a letter, a digit or '_'
IsWordChar(c) == c \notin {" ", "\t", "\n", "%", ".", "@", "|", "\\"}

\* v occurs in q, up to case, with no word character next to it
WholeWordIn(v, q) ==
    \E i \in Occurrences(Lower(q), Lower(v)) :
        /\ i = 0 \/ ~IsWordChar(q[i])
        /\ i + Len(v) = Len(q) \/ ~IsWordChar(q[i + Len(v) + 1])

\* v is a single word: it holds no whitespace
IsOneWord(v) == \A i \in 1..Len(v) : v[i] \notin WhiteSpace

\* C6: search_all_examples returns a quote if and only if some variant occurs in it
\* as a whole word, a word with punctuation attached counting as that word: for
\* "Han gikk til huset." the query 'hus' returns nothing and 'huset' the quote.
C6_WholeWordAccepted ==
    pc = "done" /\ calls # <<>> /\ calls[Len(calls)].fn = "search_all_examples" =>
        \A k \in 1..Len(conn.examples) :
            LET quote == Val(conn.examples[k].quote)
            IN  (\A n \in 1..Len(query_variants) : IsOneWord(query_variants[n])) =>
                    ((\E n \in 1..Len(query_variants) : WholeWordIn(query_variants[n], quote))
                     <=> (\E i \in 1..Len(examples) : examples[i].quote = quote))

\* C7: a run in fuzzy, anywhere, prefix, term or full-text mode returns no entry of
\* word class EXPR; the exact search returns the EXPR entries whose lemma is the
\* term.
C7_ExpressionsExcluded ==
    /\ pc = "searched" /\ search_type \in {"fuzzy", "anywhere", "prefix", "anywhere_term", "fulltext"} =>
           \A i \in 1..Len(results) : results[i].word_class # Some("EXPR")
    /\ pc = "exact_done" =>
           \A k \in 1..Len(conn.articles) :
               /\ conn.articles[k].word_class = Some("EXPR")
               /\ \E n \in 1..Len(query_variants) :
                      Fold(conn.articles[k].lemma) = Fold(query_variants[n])
               => \E i \in 1..Len(results) : results[i] = conn.articles[k]

\* a term search found entries and left out an expression that holds the term
C7_Witness ==
    /\ pc = "searched" /\ search_type = "anywhere_term"
    /\ results # <<>>
    /\ \E k \in 1..Len(conn.articles) :
           /\ conn.articles[k].word_class = Some("EXPR")
           /\ Contains(Lower(conn.articles[k].lemma), Lower(clean_query))

\* s holds v as a substring, up to case
ContainsNoCase(s, v) == Contains(Lower(s), Lower(v))

\* C8: with -x every returned entry has word class EXPR, and an EXPR entry is
\* returned if and only if its lemma or its all_lemmas holds some variant of the
\* query as a case-insensitive substring.
C8_ExpressionsOnly ==
    pc = "searched" /\ search_type = "expressions_only" =>
        /\ \A i \in 1..Len(results) : results[i].word_class = Some("EXPR")
        /\ \A k \in 1..Len(conn.articles) :
               conn.articles[k].word_class = Some("EXPR") =>
                   ((\E i \in 1..Len(results) : results[i] = conn.articles[k])
                    <=> \E n \in 1..Len(query_variants) :
                            \/ ContainsNoCase(conn.articles[k].lemma, query_variants[n])
                            \/ /\ ~IsNone(conn.articles[k].all_lemmas)
                               /\ ContainsNoCase(Val(conn.articles[k].all_lemmas), query_variants[n]))

\* C9: in exact mode the prefix search runs on the same term exactly when the
\* exact search returned no entry; otherwise the results are the exact results.
C9_FallbackExactlyWhenEmpty ==
    pc = "searched" /\ NoModeFlag /\ search_type = "exact" =>
        /\ calls[1].fn = "search_exact"
        /\ calls[1].query = clean_query
        /\ IF calls[1].returned = <<>>
           THEN /\ Len(calls) = 2
                /\ calls[2].fn = "search_prefix"
                /\ calls[2].query = calls[1].query
                /\ results = calls[2].returned
           ELSE /\ Len(calls) = 1
                /\ results = calls[1].returned

\* the exact search found nothing and the prefix search that followed found an entry
C9_Witness ==
    /\ pc = "searched" /\ search_type = "exact"
    /\ Len(calls) = 2
    /\ calls[1].returned = <<>>
    /\ calls[2].fn = "search_prefix"
    /\ results # <<>>

\* the sum of a sequence of numbers
RECURSIVE SumSeq(_)
SumSeq(s) == IF s = <<>> THEN 0 ELSE Head(s) + SumSeq(Tail(s))

\* C11: a text of 12 lines paged with page height 5 is emitted in exactly the
\* pages of 5, 5 and 2 lines before DONE when every prompt is answered with a
\* continue key; when the pager is quit at the first prompt it is DONE with the
\* first 5 lines emitted and a truncation notice of 7 lines.  In general the
\* notice states the total number of lines minus the lines already emitted.
C11_PagesAndNotice ==
    pager.state = "DONE" /\ pager.paginate =>
        /\ (pager.lines = 12 /\ pager.page_height = 5 /\ IsNone(pager.notice))
               => pager.pages = <<5, 5, 2>>
        /\ (pager.lines = 12 /\ pager.page_height = 5 /\ pager.prompts = 1
               /\ ~IsNone(pager.notice))
               => pager.pages = <<5>> /\ pager.notice = Some(7)
        /\ ~IsNone(pager.notice) => Val(pager.notice) = pager.lines - SumSeq(pager.pages)

\* 12 lines at page height 5, two prompts continued: three pages, no notice
C11_Witness ==
    /\ pager.state = "DONE" /\ pager.paginate
    /\ pager.lines = 12 /\ pager.page_height = 5
    /\ pager.pages = <<5, 5, 2>> /\ pager.reads = 2 /\ IsNone(pager.notice)

\* C12: the pager paginates exactly when -P is not given and the configuration
\* enables pagination or -p is given.  When it does not paginate the whole text
\* is one render and no prompt is ever shown (configuration off without -p; -P
\* whatever the configuration; -p together with -P); when it does, a text longer
\* than the page is prompted for after its first page (-p with the
\* configuration off included).
C12_PaginatesIffEnabled ==
    pc = "paging" =>
        LET enabled == ~args.no_paginate /\ (search_config.pagination \/ args.paginate)
        IN  /\ ~enabled => /\ pager.prompts = 0
                           /\ pager.pages \in {<<>>, <<pager.lines>>}
                           /\ pager.state \in {"RENDERING", "DONE"}
            /\ (enabled /\ pager.pages # <<>> /\ pager.lines > pager.page_height)
                   => pager.prompts >= 1 /\ pager.pages[1] = pager.page_height

\* -p and -P together on a configuration that paginates: one render, no prompt
C12_Witness ==
    /\ pc = "paging" /\ pager.state = "DONE"
    /\ args.paginate /\ args.no_paginate /\ search_config.pagination
    /\ pager.lines > pager.page_height
    /\ pager.pages = <<pager.lines>> /\ pager.prompts = 0

Formatted == IF args.all_examples THEN displayed.examples ELSE displayed.entries

\* what main() had to format: the filtered results, or the examples found
ToFormat == IF args.all_examples THEN examples ELSE results

\* C14: when --limit N is typed, min(number of results, N) results are formatted,
\* whatever the configuration and whether or not -p is given; when it is not
\* typed, the configured limit applies: limit_with_pagination if pagination is
\* on or forced, default_limit otherwise.
C14_TypedLimitWins ==
    pc = "formatted" =>
        LET configured == IF search_config.pagination \/ args.paginate
                          THEN search_config.limit_with_pagination
                          ELSE search_config.default_limit
            N == IF IsNone(args.typed_limit) THEN configured ELSE Val(args.typed_limit)
        IN  Len(Formatted) = Min({Len(ToFormat), N})

\* the word class flags given on the command line
WordClassFlags ==
    {f \in {"adj", "verb", "noun", "adv"} : args[f]}

\* the word class a flag asks for
FlagClass == ("adj" :> "ADJ") @@ ("verb" :> "VERB") @@ ("noun" :> "NOUN") @@ ("adv" :> "ADV")

\* the ranked results, as the last search function returned them
Ranked == calls[Len(calls)].returned

\* C15: with exactly one of --adj, --verb, --noun, --adv, the results after the
\* filter are exactly the ranked results of the requested word class, in their
\* ranked order, and the entries formatted are the first args.limit of them: the
\* filter comes after the ranking and before the limit, and no entry of another
\* word class (or of none) is formatted.  (--all-examples ranks no entries and
\* formats none.)
C15_OnlyRequestedClass ==
    (pc \in {"filtered", "formatted"} /\ ~args.all_examples /\ Cardinality(WordClassFlags) = 1) =>
        LET class == FlagClass[CHOOSE f \in WordClassFlags : TRUE]
            expected == SelectSeq(Ranked, LAMBDA r : r.word_class = Some(class))
        IN  /\ results = expected
            /\ pc = "formatted" =>
                  /\ displayed.entries = SubSeq(expected, 1, Min({args.limit, Len(expected)}))
                  /\ \A i \in 1..Len(displayed.entries) :
                         displayed.entries[i].word_class = Some(class)

\* --adv on ranked results of several word classes: only the adverb is formatted
C15_Witness ==
    /\ pc = "formatted" /\ ~args.all_examples /\ WordClassFlags = {"adv"}
    /\ Len(Ranked) = 3 /\ Len(results) = 1
    /\ Ranked[1].word_class # Some("ADV")
    /\ displayed.entries = results

\* the threshold of the command line lies outside [0.0, 1.0]
ThresholdOutside == args.threshold[1] < 0 \/ args.threshold[1] > args.threshold[2]

Reaches(variant, article, threshold) ==
    \/ FracLeq(threshold, similarity(variant, article.lemma))
    \/ \E l \in {SplitField(article.all_lemmas)[i] :
                    i \in 1..Len(SplitField(article.all_lemmas))} :
           FracLeq(threshold, similarity(variant, l))

\* C16: search_fuzzy returns an entry exactly when the entry passes the
\* expression filter and, for at least one variant, the similarity of the
\* variant to the lemma or to an element of all_lemmas is at least the
\* threshold (a similarity equal to the threshold counts); that an earlier
\* variant does not reach the threshold does not exclude the entry.
C16_FuzzyMembership ==
    (pc = "searched" /\ search_type = "fuzzy") =>
        LET call == calls[Len(calls)]
            variants == apply_character_replacement(call.query)
        IN  {results[i].article_id : i \in 1..Len(results)}
            = {conn.articles[k].article_id : k \in
                  {k \in 1..Len(conn.articles) :
                      /\ ExprFilter(conn.articles[k], call.include_expr)
                      /\ \E j \in 1..Len(variants) :
                             Reaches(variants[j], conn.articles[k], args.threshold)}}

\* an entry returned that the first variant does not reach and the second does,
\* next to an entry that is not returned
C16_Witness ==
    /\ pc = "searched" /\ search_type = "fuzzy"
    /\ Len(query_variants) = 2
    /\ Len(results) < Len(conn.articles)
    /\ \E i \in 1..Len(results) :
           /\ ~Reaches(query_variants[1], results[i], args.threshold)
           /\ Reaches(query_variants[2], results[i], args.threshold)

\* the elements of a ' | ' separated field
Elements(field) == {SplitField(field)[i] : i \in 1..Len(SplitField(field))}

\* C17: search_anywhere_term returns an entry that passes the expression filter
\* exactly when, for some variant, the lemma, an element of all_lemmas or an
\* element of inflections contains the variant as a substring, letter case
\* ignored: the characters of the variant stand for themselves and the match lies
\* inside one element.
C17_AnywhereTermLiteral ==
    (pc = "searched" /\ search_type = "anywhere_term") =>
        LET call == calls[Len(calls)]
            variants == apply_character_replacement(call.query)
            Has(a, v) == \/ ContainsNoCase(a.lemma, v)
                         \/ \E el \in Elements(a.all_lemmas) : ContainsNoCase(el, v)
                         \/ \E el \in Elements(a.inflections) : ContainsNoCase(el, v)
        IN  {results[i].article_id : i \in 1..Len(results)}
            = {conn.articles[k].article_id : k \in
                  {k \in 1..Len(conn.articles) :
                      /\ ExprFilter(conn.articles[k], call.include_expr)
                      /\ \E j \in 1..Len(variants) : Has(conn.articles[k], variants[j])}}

\* the rows search_all_examples retrieves and accepts for one variant, in the
\* order of the query
AcceptedRows(db, variant) ==
    SelectSeq(ExampleRows(db, variant),
              LAMBDA row : RegexSearch(variant, row.quote) \/ SplitMatch(variant, row.quote))

\* the rows retrieved for the variants from the i-th on, one variant after the other
RECURSIVE Retrieved(_, _, _)
Retrieved(db, variants, i) ==
    IF i > Len(variants) THEN <<>>
    ELSE AcceptedRows(db, variants[i]) \o Retrieved(db, variants, i + 1)

\* the retrieved rows of the last --all-examples search
RetrievedExamples == Retrieved(conn, apply_character_replacement(args.query), 1)

\* the first position of a quote in a list of rows
FirstWithQuote(rows, quote) == Min({k \in 1..Len(rows) : rows[k].quote = quote})

\* C18: the result of search_all_examples holds no two examples with the same
\* quote: of the rows retrieved with one quote (under several entries, or for
\* several variants) it holds exactly one, the first retrieved.
C18_OneCopyPerQuote ==
    pc = "done" =>
        LET R == RetrievedExamples
        IN  /\ \A i, j \in 1..Len(examples) : i # j => examples[i].quote # examples[j].quote
            /\ {examples[i].quote : i \in 1..Len(examples)} = {R[k].quote : k \in 1..Len(R)}
            /\ \A i \in 1..Len(examples) : examples[i] = R[FirstWithQuote(R, examples[i].quote)]

\* a quote retrieved under two entries, one copy kept
C18_Witness ==
    /\ pc = "done"
    /\ \E k, n \in 1..Len(RetrievedExamples) :
           /\ k < n
           /\ RetrievedExamples[k].quote = RetrievedExamples[n].quote
           /\ RetrievedExamples[k].lemma # RetrievedExamples[n].lemma
    /\ Len(examples) < Len(RetrievedExamples)

\* the retrieved rows without the later copies of a quote
KeptExamples ==
    LET R == RetrievedExamples
    IN  SelectSeq([k \in 1..Len(R) |-> [row |-> R[k], first |-> FirstWithQuote(R, R[k].quote) = k]],
                  LAMBDA x : x.first)

\* the position of a quote among the kept rows
KeptPos(quote) == CHOOSE k \in 1..Len(KeptExamples) : KeptExamples[k].row.quote = quote

\* lemma a comes before lemma b in the order of Python's string comparison
LemmaBefore(a, b) == KeyLess(StringKey(a), StringKey(b))

\* C19: the result of search_all_examples is in ascending order of the lemma of
\* the owning entry, and examples with the same lemma are in the order in which
\* they were retrieved, over all variants.
C19_SortedByLemmaStable ==
    pc = "done" =>
        \A i, j \in 1..Len(examples) :
            i < j => /\ ~LemmaBefore(examples[j].lemma, examples[i].lemma)
                     /\ examples[i].lemma = examples[j].lemma
                           => KeptPos(examples[i].quote) < KeptPos(examples[j].quote)

\* the sort moved an example, and two examples of one lemma kept their order
C19_Witness ==
    /\ pc = "done"
    /\ Len(examples) = 3
    /\ examples # [k \in 1..Len(KeptExamples) |-> KeptExamples[k].row]
    /\ examples[1].lemma = examples[2].lemma
    /\ examples[2].lemma # examples[3].lemma

\* C26: for every query the CLI accepts (a non-empty raw query), the term
\* handed to a search function is non-empty: no search runs with an empty
\* variant, which matches every entry.
C26_TermNeverEmpty ==
    \A i \in 1..Len(calls) : args.query # <<>> => calls[i].query # <<>>

\* the written forms of an entry: its lemma and the elements of all_lemmas
WrittenForms(article) == {article.lemma} \cup Elements(article.all_lemmas)

\* s is the highest similarity between a variant and a written form
IsBestSimilarity(s, variants, article) ==
    /\ \E j \in 1..Len(variants), f \in WrittenForms(article) :
           FracEq(s, similarity(variants[j], f))
    /\ \A j \in 1..Len(variants), f \in WrittenForms(article) :
           FracLeq(similarity(variants[j], f), s)

\* C27: the score by which search_fuzzy ranks an entry is the highest
\* similarity between any variant of the query and any written form of the
\* entry (its lemma or an element of all_lemmas), whatever the order of the
\* variants and whichever form reached the threshold first.
C27_ScoreIsBestSimilarity ==
    (pc = "searched" /\ search_type = "fuzzy") =>
        LET hits == fuzzy_hits(conn, clean_query, args.threshold, FALSE)
        IN  \A k \in 1..Len(hits) : IsBestSimilarity(hits[k][2], query_variants, hits[k][1])

\* the result of the named search function on the connection, with include_expr
SearchWith(fn, term, include_expr) ==
    CASE fn = "search_prefix" -> search_prefix(conn, term, include_expr)
      [] fn = "search_anywhere_term" -> search_anywhere_term(conn, term, include_expr)
      [] fn = "search_fulltext" -> search_fulltext(conn, term, include_expr)
      [] fn = "search_anywhere" -> search_anywhere(conn, term, include_expr)
      [] fn = "search_fuzzy" -> search_fuzzy(conn, term, args.threshold, include_expr)

\* a list of entries without its entries of word_class EXPR
WithoutExpr(rs) == SelectSeq(rs, LAMBDA r : r.word_class # Some("EXPR"))

\* C28: for search_prefix, search_anywhere_term, search_fulltext,
\* search_anywhere and search_fuzzy, over any corpus (entries without a
\* word_class included) and any query, the result with include_expr=False is
\* the result with include_expr=True without its EXPR entries, the other
\* entries in the same order.
C28_IncludeExprRemovesOnlyExpr ==
    \A i \in 1..Len(calls) :
        (/\ conn # None
         /\ calls[i].fn \in {"search_prefix", "search_anywhere_term", "search_fulltext",
                             "search_anywhere", "search_fuzzy"}
         /\ ~calls[i].include_expr)
        => calls[i].returned = WithoutExpr(SearchWith(calls[i].fn, calls[i].query, TRUE))

\* the ids of a list of entries
IdSet(rs) == {rs[i].article_id : i \in 1..Len(rs)}

\* C29: for any corpus, any term and the same include_expr, the ids returned
\* by search_exact are among those returned by search_prefix, which are among
\* those returned by search_anywhere_term, which are among those returned by
\* search_fulltext.
C29_ModesNested ==
    pc = "exact_done" =>
        \A include_expr \in BOOLEAN :
            /\ IdSet(search_exact(conn, clean_query, include_expr))
                   \subseteq IdSet(search_prefix(conn, clean_query, include_expr))
            /\ IdSet(search_prefix(conn, clean_query, include_expr))
                   \subseteq IdSet(search_anywhere_term(conn, clean_query, include_expr))
            /\ IdSet(search_anywhere_term(conn, clean_query, include_expr))
                   \subseteq IdSet(search_fulltext(conn, clean_query, include_expr))

\* the exact search found an entry, the prefix search finds one more, and the
\* full-text search finds one that no written form matches
C29_Witness ==
    /\ pc = "exact_done"
    /\ results # <<>>
    /\ IdSet(results) # IdSet(search_prefix(conn, clean_query, TRUE))
    /\ IdSet(search_anywhere_term(conn, clean_query, TRUE))
           # IdSet(search_fulltext(conn, clean_query, TRUE))

\* the search function of a query syntax
SyntaxFunction ==
    ("prefix" :> "search_prefix") @@ ("anywhere_term" :> "search_anywhere_term")
    @@ ("fulltext" :> "search_fulltext") @@ ("exact" :> "search_exact")

\* the function and the term the command line asks for: the first flag that
\* applies with the raw query, otherwise the syntax with the cleaned term
ExpectedSearch ==
    IF args.all_examples THEN <<"search_all_examples", args.query>>
    ELSE IF args.expressions_only THEN <<"search_expressions_only", args.query>>
    ELSE IF args.fuzzy THEN <<"search_fuzzy", args.query>>
    ELSE IF args.anywhere THEN <<"search_anywhere", args.query>>
    ELSE LET parsed == parse_search_query(args.query)
         IN  <<SyntaxFunction[parsed.search_type], parsed.query>>

\* C30: the CLI chooses the search by the first that applies of
\* --all-examples, -x, -f, -a, and otherwise by the syntax of the query; a flag
\* takes the raw query with its '%' and '@' as the term, the syntax takes the
\* cleaned term; one search is run per invocation, apart from the prefix
\* search that follows an exact search.
C30_OneModeChosen ==
    /\ pc \in {"exact_done", "searched", "done"} => Len(calls) >= 1
    /\ Len(calls) <= 2
    /\ calls # <<>> => <<calls[1].fn, calls[1].query>> = ExpectedSearch
    /\ Len(calls) = 2 => /\ calls[1].fn = "search_exact"
                         /\ calls[2].fn = "search_prefix"
                         /\ calls[2].query = calls[1].query

\* two flags and a query with a marker: the first flag chose the search, and
\* the marker is part of the term
C30_Witness ==
    /\ pc = "searched"
    /\ args.expressions_only /\ args.fuzzy
    /\ Head(args.query) = "%"
    /\ Len(calls) = 1
    /\ calls[1].fn = "search_expressions_only"
    /\ calls[1].query = args.query
    /\ parse_search_query(args.query).query # args.query

\* C24: the pager enters AWAITING_INPUT (shows the prompt and consumes input)
\* only after it has emitted a full page with at least one line remaining; a
\* text of no more lines than the page height, and the last page of any text
\* (a text of an exact multiple of the page height included), reaches DONE
\* without a prompt and without consuming input.
C24_PromptOnlyWhenMoreRemains ==
    /\ [][(pager'.state = "AWAITING_INPUT" /\ pager.state # "AWAITING_INPUT")
              => /\ pager.state = "RENDERING"
                 /\ pager'.pages[Len(pager'.pages)] = pager.page_height
                 /\ pager'.offset < pager.lines
                 /\ pager'.prompts = pager.prompts + 1]_vars
    /\ [][(pager.state = "RENDERING" /\ pager'.offset = pager.lines)
              => /\ pager'.state = "DONE"
                 /\ pager'.prompts = pager.prompts
                 /\ pager'.reads = pager.reads
                 /\ stdin' = stdin]_vars
    /\ [](pager.reads <= pager.prompts)
    /\ []((pager.state # "IDLE" /\ pager.lines <= pager.page_height)
              => (pager.prompts = 0 /\ pager.reads = 0 /\ pager.state # "AWAITING_INPUT"))

\* a text of twice the page height was emitted in two pages with one prompt,
\* and the key after the last page was left unread
C24_Witness ==
    /\ pager.state = "DONE"
    /\ pager.paginate
    /\ pager.lines = 2 * pager.page_height
    /\ Len(pager.pages) = 2
    /\ pager.prompts = 1 /\ pager.reads = 1
    /\ pager.notice = None
    /\ stdin # <<>>

\* s is the beginning of t
IsPrefix(s, t) == Len(s) <= Len(t) /\ SubSeq(t, 1, Len(s)) = s

\* the content the pager has emitted: its pages, one after the other
EmittedText == JoinLines(pager.chunks)

\* C25: when every prompt is answered with a continue key (space, enter or
\* empty input), the content the pager emits over all pages, concatenated in
\* order, equals the input text exactly: every logical line once, in the
\* original order, with its escape sequences intact; and every page boundary
\* falls on a newline, never inside a line or an escape sequence.
C25_ContentPreserved ==
    /\ (pager.state = "DONE" /\ pager.notice = None) => EmittedText = pager.text
    /\ pager.chunks # <<>> =>
           /\ IsPrefix(EmittedText, pager.text)
           /\ Len(EmittedText) < Len(pager.text) => pager.text[Len(EmittedText) + 1] = "\n"
           /\ Len(LogicalLines(EmittedText)) = pager.offset

\* three pages shown after two continue keys, with styled and empty lines; one
\* page ended after the last character of an escape sequence, one with an
\* empty line
C25_Witness ==
    /\ pager.state = "DONE" /\ pager.notice = None
    /\ pager.reads = 2
    /\ Len(pager.chunks) = 3
    /\ pager.lines > 2 * pager.page_height
    /\ \E k \in 1..Len(pager.text) : pager.text[k] = "ESC"
    /\ \E k \in 1..Len(pager.chunks) : pager.chunks[k] # <<>> /\ pager.chunks[k][Len(pager.chunks[k])] = "m"
    /\ \E k \in 1..Len(pager.chunks) : pager.chunks[k] = <<>> \/ pager.chunks[k][Len(pager.chunks[k])] = "\n"

\* a retrieval has raised
Raised == error = Some("Exception")

\* C21: if a retrieval against the corpus raises during a query, the CLI
\* issues no further retrieval (no retry, no fallback to another mode),
\* displays and pages no partial result, reports the error and exits with a
\* non-zero status.
C21_RetrievalErrorIsFatal ==
    /\ [][Raised' => (calls' = calls /\ results' = results /\ examples' = examples)]_vars
    /\ [](Raised => (displayed = NothingDisplayed /\ pager = PagerIdle))
    /\ []((Raised /\ pc = "exited") => (exit_status # None /\ Val(exit_status) # 0))
    /\ Raised ~> (pc = "exited")

\* format_result raised after a search that found entries: nothing of the
\* result was displayed, and the run ended with status 1
C21_Witness ==
    /\ Raised
    /\ pc = "exited"
    /\ exit_status = Some(1)
    /\ Len(calls) = 1
    /\ results # <<>>
    /\ displayed = NothingDisplayed

\* what the run found: the examples of --all-examples, the entries otherwise
Found == IF args.all_examples THEN examples ELSE results

\* the search has been made and, where it applies, the word class filter
SearchOver == pc \in {"filtered", "done", "formatted", "paging", "exited"} /\ calls # <<>>

\* C22: finding no match is not an error: the search functions return an
\* empty list, and when the result is empty (after a word class filter removed
\* every entry, and in --all-examples mode, too) the CLI prints the no-results
\* notice, calls neither the formatter nor the pager, and ends with status 0.
C22_NoMatchIsNotAnError ==
    /\ [][(SearchOver /\ error = None /\ Found = <<>> /\ pc # "exited")
              => (error' # None \/ (pc' = "exited" /\ exit_status' = Some(0)))]_vars
    /\ []((SearchOver /\ Found = <<>>) => (displayed = NothingDisplayed /\ pager = PagerIdle))
    /\ (SearchOver /\ error = None /\ Found = <<>>) ~> (pc = "exited")

\* the search found entries and the word class filter removed them all
C22_Witness ==
    /\ pc = "exited"
    /\ error = None
    /\ exit_status = Some(0)
    /\ args.verb
    /\ calls # <<>> /\ calls[Len(calls)].returned # <<>>
    /\ results = <<>>
    /\ pager = PagerIdle

\* the pipeline has reached one of its ends with the connection open: an
\* exception or an interrupt was raised, the pager is done, or nothing was found
PipelineEnds ==
    /\ conn # None
    /\ \/ pc = "raised"
       \/ pc = "paging" /\ pager.state = "DONE"
       \/ pc = "filtered" /\ results = <<>>
       \/ pc = "done" /\ examples = <<>>

\* C23: once the query pipeline has started with an open connection, the
\* connection is closed on every way the pipeline ends: after paging, at the
\* early return for no results, at the early return of --all-examples, after
\* an exception (before the process exits with status 1) and after a keyboard
\* interrupt; and no retrieval is issued after the close.
C23_ConnectionAlwaysClosed ==
    /\ PipelineEnds ~> (pc = "exited" /\ conn = None)
    /\ [](pc = "exited" => conn = None)
    /\ [][(conn # None /\ conn' = None) => pc' = "exited"]_vars
    /\ [][(pc # "main" /\ conn = None) => calls' = calls]_vars

\* the run was interrupted while the pager waited for a key: the connection is
\* closed and the status is 0
C23_Witness ==
    /\ pc = "exited"
    /\ conn = None
    /\ error = Some("KeyboardInterrupt")
    /\ pager.state = "AWAITING_INPUT"
    /\ exit_status = Some(0)
====
